---------------------------- MODULE Spec2Model ----------------------------
(***************************************************************************)
(* Request-governance middleware of highperf-api: the token-bucket rate    *)
(* limiter and the circuit breaker of internal/httpserver/middleware.go,   *)
(* run by concurrent request goroutines.                                   *)
(*                                                                         *)
(* Time is a global clock counted in ticks of tickNs nanoseconds.  The      *)
(* refill count is computed as the code computes it, in float64.           *)
(* A request goroutine is a worker: it serves one request at a time, and   *)
(* the middleware chain it runs through is fixed by the specification.     *)
(***************************************************************************)
EXTENDS Integers, Sequences, FiniteSets

VARIABLES
    clock,     \* time.Now(), in ticks
    tickNs,    \* the length of a tick, in nanoseconds
    refillTab, \* the refill count of each elapsed time, as float64 gives it
    chain,     \* the composed handler, outermost stage first
    rl,        \* the RateLimiter struct (mu: 0 = unlocked, else the holder)
    cb,        \* the CircuitBreaker struct (mu as above)
    rq,        \* per worker: the request it is serving
    admits,    \* admissions so far while no refill has added tokens, else -1
    rejected,  \* a 429 was answered while no refill had added tokens
    drainedAt, \* clock when an admission last left the bucket empty, else -1
               \* (-2: not observed by this specification)
    run,       \* k: the breaker has so far seen exactly k calls, one after
               \* another, each reaching downstream and failing; threshold
               \* + 1: and the request right after the threshold-th one was
               \* rejected by the breaker; else -1
    postCool,  \* 0: the breaker was opened and no request has passed its
               \* check since; w: the request of worker w is the first that
               \* passed since, and is not yet handed to the client; else -1
               \* (-2: not observed by this specification)
    scen,      \* k: exactly k requests were served so far, one at a time,
               \* each arriving and treated downstream as the end-to-end
               \* scenario has its k-th request; else -1
    bufPool,   \* jsonx.bufPool: how often each buffer pointer is pooled
    heap,      \* the bytes.Buffer each pointer refers to (len, cap)
    task,      \* per worker: the goroutine using the buffer pool
    dropped,   \* PutBuffer has so far dropped a buffer instead of pooling it
    objs,      \* the RateLimiter and CircuitBreaker struct at each address
    cur,       \* the pipeline whose requests are being stepped: rl and cb
               \* are the structs its middlewares point to
    forwarded  \* requests the rate limiter has forwarded since it was
               \* constructed (-1: not counted by this specification)

\* the state of package jsonx and of its users
jsonx == <<bufPool, heap, task, dropped>>

\* the pipelines constructed next to the one being stepped
pipes == <<objs, cur>>

vars ==
    <<clock, tickNs, refillTab, chain, rl, cb, rq, admits, rejected, drainedAt,
      run, postCool, scen, jsonx, pipes, forwarded, forwarded>>

-----------------------------------------------------------------------------
(* Bounds of the model *)

NumWorkers == 2
MaxTime == 3
MaxCapacity == 2
MaxThreshold == 4
MaxWait == 3
PipeWorkers == 1
MaxBufs == 2
MaxFields == 3

(* Program constants *)

OpenFor == 2
DecayStep == 2
JitterN == 2
BudgetMs == 100
UserBudgetMs == 80
PoolCeiling == 1048576
StatusOK == 200
StatusBadRequest == 400
StatusNotFound == 404
StatusGatewayTimeout == 504
StatusCreated == 201
StatusConflict == 409
StatusRequestTimeout == 408
StatusTooManyRequests == 429
StatusInternalServerError == 500
StatusServiceUnavailable == 503

Workers == 1..NumWorkers

\* What the downstream handler may do: 0 = return without WriteHeader,
\* otherwise WriteHeader(code).
HandlerCodes == {0, 404, 500}

Min(a, b) == IF a < b THEN a ELSE b

Max(a, b) == IF a > b THEN a ELSE b

-----------------------------------------------------------------------------
(* float64 arithmetic *)

\* Natural numbers of any size: sequences of 15-bit limbs, least significant
\* first, without leading zero limbs.  The operations are functions, so that
\* an argument is evaluated once, before the function is applied.
Limb == 2^15

LNat == Seq(Nat)

LFromInt(n) ==
    IF n = 0 THEN << >>
    ELSE IF n < Limb THEN <<n>>
    ELSE IF n < Limb * Limb THEN <<n % Limb, n \div Limb>>
    ELSE <<n % Limb, (n \div Limb) % Limb, n \div (Limb * Limb)>>

\* defined for numbers below 2^31 only
LToInt[a \in LNat] ==
    IF a = << >> THEN 0
    ELSE IF Len(a) = 1 THEN a[1]
    ELSE IF Len(a) = 2 THEN a[1] + Limb * a[2]
    ELSE a[1] + Limb * a[2] + Limb * Limb * a[3]

LTrim[a \in LNat] ==
    LET used == {i \in 1..Len(a) : a[i] # 0}
    IN IF used = {} THEN << >>
       ELSE SubSeq(a, 1, CHOOSE i \in used : \A j \in used : j <= i)

LDigit(a, i) == IF i >= 1 /\ i <= Len(a) THEN a[i] ELSE 0

LLess[a \in LNat, b \in LNat] ==
    IF Len(a) # Len(b) THEN Len(a) < Len(b)
    ELSE \E i \in 1..Len(a) :
            a[i] < b[i] /\ \A k \in (i + 1)..Len(a) : a[k] = b[k]

\* a + b: the carry out of limb i is 1 when some limb j <= i overflows and
\* the limbs between them are all Limb - 1
LAdd[a \in LNat, b \in LNat] ==
    LET n == IF Len(a) > Len(b) THEN Len(a) ELSE Len(b)
        s(i) == LDigit(a, i) + LDigit(b, i)
        c(i) == IF \E j \in 1..i :
                      s(j) >= Limb /\ \A k \in (j + 1)..i : s(k) = Limb - 1
                THEN 1 ELSE 0
    IN LTrim[[i \in 1..(n + 1) |->
                IF i <= n THEN (s(i) + c(i - 1)) % Limb ELSE c(n)]]

\* a - b for a >= b: the borrow out of limb i is 1 when some limb j <= i of
\* a is smaller than b's and the limbs between them are equal
LSub[a \in LNat, b \in LNat] ==
    LET w(i) == IF \E j \in 1..i :
                      a[j] < LDigit(b, j)
                      /\ \A k \in (j + 1)..i : a[k] = LDigit(b, k)
                THEN 1 ELSE 0
    IN LTrim[[i \in 1..Len(a) |->
                (a[i] - LDigit(b, i) - w(i - 1) + 2 * Limb) % Limb]]

\* a * Limb^k
LShift[a \in LNat, k \in Nat] ==
    IF a = << >> THEN a ELSE [i \in 1..k |-> 0] \o a

\* a * d for a digit d < Limb: the low halves of the limb products, plus
\* their high halves one limb up
LScale[a \in LNat, d \in Nat] ==
    LAdd[LTrim[[i \in 1..Len(a) |-> (a[i] * d) % Limb]],
         LTrim[[i \in 1..(Len(a) + 1) |->
                  IF i = 1 THEN 0 ELSE (a[i - 1] * d) \div Limb]]]

\* a * (the limbs of b from the i-th on)
LMulFrom[a \in LNat, b \in LNat, i \in Nat] ==
    IF i > Len(b) THEN << >>
    ELSE LAdd[LScale[a, b[i]], LShift[LMulFrom[a, b, i + 1], 1]]

LMul[a \in LNat, b \in LNat] == LMulFrom[a, b, 1]

\* a * 2^s
LShlBits[a \in LNat, s \in Nat] == LShift[LScale[a, 2^(s % 15)], s \div 15]

IntBitLen(n) == Cardinality({k \in 0..14 : 2^k <= n})

LBitLen[a \in LNat] ==
    IF a = << >> THEN 0 ELSE 15 * (Len(a) - 1) + IntBitLen(a[Len(a)])

\* b * d <= r
LFits[r \in LNat, b \in LNat, d \in Nat] == ~LLess[r, LScale[b, d]]

\* the largest digit d with b * d <= r, for r < b * Limb: its high, middle
\* and low five bits in turn
LQuotLow[r \in LNat, b \in LNat, mid \in Nat] ==
    mid + Cardinality({k \in 1..31 : LFits[r, b, mid + k]})

LQuotMid[r \in LNat, b \in LNat, hi \in Nat] ==
    LQuotLow[r, b, hi + 32 * Cardinality({k \in 1..31 : LFits[r, b, hi + 32 * k]})]

LQuotDigit[r \in LNat, b \in LNat] ==
    LQuotMid[r, b, 1024 * Cardinality({k \in 1..31 : LFits[r, b, 1024 * k]})]

\* a quotient and a remainder
LQuotRem == [q : LNat, r : LNat]

\* one step of the long division: the remainder qr.r so far takes the next
\* limb x of the dividend, and the quotient qr.q its next digit
LDivDigit[b \in LNat, q \in LNat, r2 \in LNat, d \in Nat] ==
    [q |-> <<d>> \o q, r |-> LSub[r2, LScale[b, d]]]

LDivLimb[b \in LNat, q \in LNat, r2 \in LNat] ==
    LDivDigit[b, q, r2, LQuotDigit[r2, b]]

LDivStep[b \in LNat, qr \in LQuotRem, x \in Nat] ==
    LDivLimb[b, qr.q, LTrim[<<x>> \o qr.r]]

\* long division, most significant limb first, down to the limb i of a: the
\* limbs of a above the first Len(b) - 1 give no quotient digit, they start
\* the remainder
LDivFrom[a \in LNat, b \in LNat, i \in Nat] ==
    IF i > Len(a) - Len(b) + 1
    THEN [q |-> << >>, r |-> SubSeq(a, Len(a) - Len(b) + 2, Len(a))]
    ELSE LDivStep[b, LDivFrom[a, b, i + 1], a[i]]

LDivTrimmed[qr \in LQuotRem] == [q |-> LTrim[qr.q], r |-> qr.r]

LDivMod[a \in LNat, b \in LNat] ==
    IF Len(a) < Len(b) THEN [q |-> << >>, r |-> a]
    ELSE LDivTrimmed[LDivFrom[a, b, 1]]

LOne == <<1>>

\* A float64 is kept as the exact fraction n/d it stands for (d a power of
\* two).  Round[p, q] is the float64 nearest to p/q, ties to even: every
\* float64 operation of Go is the exact result rounded that way.
Float64 == [n : LNat, d : LNat]

\* the quotient dm.q, rounded to the nearest integer, ties to even: twice is
\* twice the remainder, qq the divisor
RoundUp[dm \in LQuotRem, qq \in LNat, twice \in LNat] ==
    IF LLess[qq, twice] \/ (twice = qq /\ LDigit(dm.q, 1) % 2 = 1)
    THEN LAdd[dm.q, LOne] ELSE dm.q

RoundQuot[dm \in LQuotRem, qq \in LNat] == RoundUp[dm, qq, LScale[dm.r, 2]]

\* m / 2^s, and the number of bits the unrounded quotient had
RoundScaled[len \in Nat, m \in LNat, s \in Int] ==
    [len |-> len,
     n |-> IF s <= 0 THEN LShlBits[m, -s] ELSE m,
     d |-> IF s > 0 THEN LShlBits[LOne, s] ELSE LOne]

RoundDiv[dm \in LQuotRem, qq \in LNat, s \in Int] ==
    RoundScaled[LBitLen[dm.q], RoundQuot[dm, qq], s]

RoundFrac[pp \in LNat, qq \in LNat, s \in Int] ==
    RoundDiv[LDivMod[pp, qq], qq, s]

\* p/q rounded to a multiple of 2^-s
RoundAt[p \in LNat, q \in LNat, s \in Int] ==
    RoundFrac[IF s >= 0 THEN LShlBits[p, s] ELSE p,
              IF s >= 0 THEN q ELSE LShlBits[q, -s],
              s]

\* a rounded fraction n/d, and the number of bits of the unrounded quotient
Rounding == [len : Nat, n : LNat, d : LNat]

\* 53 bits are kept: one try, and one bit less when the quotient had 54
RoundAgain[a \in Rounding, p \in LNat, q \in LNat, s \in Int] ==
    IF a.len = 54 THEN RoundAt[p, q, s - 1] ELSE a

RoundTried[p \in LNat, q \in LNat, s \in Int] ==
    RoundAgain[RoundAt[p, q, s], p, q, s]

RoundBits[a \in Rounding] == [n |-> a.n, d |-> a.d]

Round[p \in LNat, q \in LNat] ==
    IF p = << >> THEN [n |-> << >>, d |-> LOne]
    ELSE RoundBits[RoundTried[p, q, 53 + LBitLen[q] - LBitLen[p]]]

FromInt(k) == [n |-> LFromInt(k), d |-> LOne]

FAdd[a \in Float64, b \in Float64] ==
    Round[LAdd[LMul[a.n, b.d], LMul[b.n, a.d]], LMul[a.d, b.d]]

FMul[a \in Float64, b \in Float64] == Round[LMul[a.n, b.n], LMul[a.d, b.d]]

FDiv[a \in Float64, b \in Float64] == Round[LMul[a.n, b.d], LMul[a.d, b.n]]

Trunc[a \in Float64] == LToInt[LDivMod[a.n, a.d].q]

\* time.Second and time.Millisecond, in nanoseconds
Second == 10^9

Millisecond == 10^6

\* Duration.Seconds() of a duration d of `ticks` ticks of ns nanoseconds:
\* float64(d / Second) + float64(d % Second) / 1e9, for durations whose
\* whole seconds and whose ticks * (ns % Second) are below 2^31
Seconds(ticks, ns) ==
    LET frac == ticks * (ns % Second)
        sec == ticks * (ns \div Second) + frac \div Second
        nsec == frac % Second
    IN FAdd[FromInt(sec), FDiv[FromInt(nsec), FromInt(Second)]]

\* int(float64(refill) * elapsed.Seconds() / per.Seconds())
FloatCount(refill, elapsed, per, ns) ==
    Trunc[FDiv[FMul[FromInt(refill), Seconds(elapsed, ns)], Seconds(per, ns)]]

-----------------------------------------------------------------------------
(* Rate limiter: pure parts *)

\* The configurations of the rate limiter that are explored: one token per
\* two seconds, and five tokens per 3 ms on a clock of 300 microsecond ticks.
RLConfigs ==
    {[ns |-> Second, refill |-> 1, per |-> 2],
     [ns |-> 300000, refill |-> 5, per |-> 10]}

\* the refill count of every elapsed time the clock allows
RefillTable(refill, per, ns) ==
    [e \in 1..MaxTime |-> FloatCount(refill, e, per, ns)]

NewRateLimiter(capacity, refillRate, per, t) ==
    [mu |-> 0, tokens |-> capacity, last |-> t,
     cap |-> capacity, refill |-> refillRate, per |-> per]

\* (variant: a token is credited for any elapsed time)
RefillCountEager(r, now) == refillTab[now - r.last] + 1

\* n := int(float64(rl.refill) * elapsed.Seconds() / rl.per.Seconds())
RefillCount(r, now) == refillTab[now - r.last]

\* (variant: the refill adds without clamping to the capacity)
RefilledUnclamped(r, now) ==
    IF now - r.last > 0 /\ RefillCount(r, now) > 0
    THEN [r EXCEPT !.tokens = r.tokens + RefillCount(r, now), !.last = now]
    ELSE r

\* (variant: every request stamps lastRefill with its own now)
RefilledStamping(r, now) ==
    IF now - r.last > 0 /\ RefillCount(r, now) > 0
    THEN [r EXCEPT !.tokens = Min(r.cap, r.tokens + RefillCount(r, now)),
                   !.last = now]
    ELSE [r EXCEPT !.last = now]

\* the refill step of the critical section
Refilled(r, now) ==
    IF now - r.last > 0 /\ RefillCount(r, now) > 0
    THEN [r EXCEPT !.tokens = Min(r.cap, r.tokens + RefillCount(r, now)),
                   !.last = now]
    ELSE r

\* (variant: the bucket counts as empty only below zero)
RLBusyBelowZero(r) == r.tokens < 0

\* if rl.tokens <= 0 { ... 429 ... }
RLBusy(r) == r.tokens <= 0

\* (variant: a rejection consumes a token too)
RLRejectedConsuming(r) == [r EXCEPT !.mu = 0, !.tokens = r.tokens - 1]

\* the reject path: rl.mu.Unlock() and nothing else
RLRejected(r) == [r EXCEPT !.mu = 0]

\* the admit path: rl.tokens--; rl.mu.Unlock()
\* (variant: the lock is still held when next is called)
RLAdmittedLocked(r) == [r EXCEPT !.tokens = r.tokens - 1]

RLAdmitted(r) == [r EXCEPT !.tokens = r.tokens - 1, !.mu = 0]

-----------------------------------------------------------------------------
(* Circuit breaker: pure parts *)

NewCircuitBreaker(failureThreshold, openFor) ==
    [mu |-> 0, failures |-> 0, openUntil |-> 0,
     failureThreshold |-> failureThreshold, openFor |-> openFor]

\* (variant: the breaker is still open at the instant openUntil)
CBIsOpenInclusive(c, t) == t <= c.openUntil

\* time.Now().Before(cb.openUntil)
CBIsOpen(c, t) == t < c.openUntil

\* (variant: a rejection counts as a failure)
CBRejectedCounting(c) == [c EXCEPT !.mu = 0, !.failures = c.failures + 1]

\* the reject path: cb.mu.Unlock() and nothing else
CBRejected(c) == [c EXCEPT !.mu = 0]

\* (variant: client errors count as failures too)
IsFailureFrom400(code) == code >= 400

\* rr.code >= http.StatusInternalServerError
IsFailure(code) == code >= StatusInternalServerError

\* (variant: a success resets the score)
DecayedToZero(f) == 0

\* int(math.Max(0, float64(cb.failures-2)))
Decayed(f) == Max(0, f - DecayStep)

\* (variant: opening keeps the score)
TrippedKeepingScore(c, t) == [c EXCEPT !.openUntil = t + c.openFor]

\* cb.openUntil = time.Now().Add(cb.openFor); cb.failures = 0
Tripped(c, t) == [c EXCEPT !.openUntil = t + c.openFor, !.failures = 0]

\* cb.failures++ ; if cb.failures >= cb.failureThreshold
Trips(c, code) == IsFailure(code) /\ c.failures + 1 >= c.failureThreshold

\* (variant: the breaker opens only above the threshold)
RecordedLate(c, code, t) ==
    IF IsFailure(code)
    THEN IF c.failures + 1 > c.failureThreshold
         THEN Tripped(c, t)
         ELSE [c EXCEPT !.failures = c.failures + 1]
    ELSE [c EXCEPT !.failures = Decayed(c.failures)]

\* (variant: half-open, any failure re-opens a breaker that was open before)
RecordedHalfOpen(c, code, t) ==
    IF IsFailure(code)
    THEN IF c.failures + 1 >= c.failureThreshold \/ c.openUntil > 0
         THEN Tripped(c, t)
         ELSE [c EXCEPT !.failures = c.failures + 1]
    ELSE [c EXCEPT !.failures = Decayed(c.failures)]

\* the outcome-recording critical section
Recorded(c, code, t) ==
    IF IsFailure(code)
    THEN IF Trips(c, code)
         THEN Tripped(c, t)
         ELSE [c EXCEPT !.failures = c.failures + 1]
    ELSE [c EXCEPT !.failures = Decayed(c.failures)]

-----------------------------------------------------------------------------
(* Requests *)

\* pc: where the goroutine is; depth: index in chain of the running stage;
\* now: the time.Now() the running stage sampled; code: the first status
\* written to the ResponseWriter (0 = none); rec: respRecorder.code; down:
\* the downstream handler was invoked; body: the messages http.Error wrote;
\* server: the Server header is set; ctx: the context withTimeouts derived
\* ("none" before it did); ddl: its deadline; wake: when the timer the
\* handler waits on is due; fault: the depth of the outermost stage a panic
\* of this request has reached (0 = no panic); hcode: the status the
\* downstream handler wrote (0 = none).
IdleReq == [pc |-> "idle", depth |-> 0, now |-> 0, code |-> 0, rec |-> 0,
            down |-> FALSE, body |-> << >>, server |-> FALSE, ctx |-> "none",
            ddl |-> 0, wake |-> 0, fault |-> 0, hcode |-> 0]

\* the status the client receives: net/http sends 200 when none was written
Status(r) == IF r.code = 0 THEN StatusOK ELSE r.code

Entry(stage) ==
    CASE stage = "ratelimit" -> "rl_now"
      [] stage = "breaker" -> "cb_lock"
      [] stage = "timeouts" -> "to_enter"
      [] stage = "handler" -> "h_run"

\* the stages that touch nothing but their own request before they call
\* next: withServerHeader sets the Server header, withRecover registers its
\* deferred function, withMetrics and withTracing log
Local(stage) == stage \in {"header", "recover", "metrics", "tracing"}

\* next.ServeHTTP(w, r) from the stage at r.depth; the stage's locals are
\* not used after the call.  A stage that is Local runs up to its own call
\* of next in the same step: no other goroutine can tell the difference.
RECURSIVE Forward(_)
Forward(r) ==
    IF Local(chain[r.depth + 1])
    THEN Forward([r EXCEPT !.depth = r.depth + 1,
                           !.server = r.server
                                      \/ chain[r.depth + 1] = "header"])
    ELSE [r EXCEPT !.depth = r.depth + 1,
                   !.now = 0,
                   !.pc = Entry(chain[r.depth + 1]),
                   !.down = r.down \/ chain[r.depth + 1] = "handler"]

\* (variant: the recorder keeps the status to itself)
WriteHeaderKept(r, code) ==
    [r EXCEPT !.rec = IF \E d \in 1..(r.depth - 1) : chain[d] = "breaker"
                      THEN code ELSE r.rec,
              !.code = IF \E d \in 1..(r.depth - 1) : chain[d] = "breaker"
                       THEN r.code
                       ELSE IF r.code = 0 THEN code ELSE r.code]

\* (variant: the recorder keeps the first status it is given)
WriteHeaderFirst(r, code) ==
    [r EXCEPT !.code = IF r.code = 0 THEN code ELSE r.code,
              !.rec = IF /\ \E d \in 1..(r.depth - 1) : chain[d] = "breaker"
                         /\ r.code = 0
                      THEN code ELSE r.rec]

\* w.WriteHeader(code): the first status reaches the client, and a
\* respRecorder above the writing stage records the last one.
WriteHeader(r, code) ==
    [r EXCEPT !.code = IF r.code = 0 THEN code ELSE r.code,
              !.rec = IF \E d \in 1..(r.depth - 1) : chain[d] = "breaker"
                      THEN code ELSE r.rec]

\* the downstream handler calls w.WriteHeader(c), or (c = 0) does not
HandlerWrites(r, c) ==
    IF c = 0 THEN r ELSE [WriteHeader(r, c) EXCEPT !.hcode = c]

\* http.Error(w, msg, code): WriteHeader(code), then the message as body
HttpError(r, msg, code) ==
    [WriteHeader(r, code) EXCEPT !.body = Append(r.body, msg)]

\* (variant: cancel is never called)
DeferredNothing(r) == r

\* the deferred calls of the stage at r.depth, run when the stage is left by
\* a return or by a panic: withTimeouts defers cancel()
Deferred(r) ==
    IF chain[r.depth] = "timeouts"
    THEN [r EXCEPT !.ctx = "cancelled", !.ddl = 0]
    ELSE r

\* the stage at r.depth returns: control goes back to the nearest breaker
\* above it (the other stages do nothing but their deferred calls after
\* next.ServeHTTP), or the request is done
RECURSIVE Returned(_)
Returned(r) ==
    IF r.depth = 1
    THEN [Deferred(r) EXCEPT !.depth = 0, !.pc = "done", !.now = 0]
    ELSE IF chain[r.depth - 1] = "breaker"
         THEN [Deferred(r) EXCEPT !.depth = r.depth - 1, !.pc = "cb_rlock",
                                  !.now = 0]
         ELSE Returned([Deferred(r) EXCEPT !.depth = r.depth - 1])

\* (variant: no stage recovers)
CatchesNothing(stage) == FALSE

\* the stages whose deferred function calls recover()
Catches(stage) == stage = "recover"

\* a panic is in flight in the stage at r.depth: withRecover's deferred
\* function recovers it, answers 500 and the stage returns; any other stage
\* is left with its deferred calls run and the panic goes on to its caller;
\* a panic that leaves the outermost stage ends the request without a
\* return
RECURSIVE Panicked(_)
Panicked(r) ==
    IF Catches(chain[r.depth])
    THEN Returned(HttpError([r EXCEPT !.fault = r.depth],
                            "internal server error",
                            StatusInternalServerError))
    ELSE IF r.depth = 1
         THEN [Deferred(r) EXCEPT !.fault = 1, !.depth = 0, !.pc = "crashed",
                                  !.now = 0, !.wake = 0]
         ELSE Panicked([Deferred(r) EXCEPT !.depth = r.depth - 1])

\* The end-to-end scenario: eleven requests, one at a time.  Requests 1..6
\* arrive and are served at time 0; 7..9 arrive once a refill period has
\* passed; 10 arrives and is served while the breaker is open; 11 arrives
\* when the cooldown is over.
Arrives(k) ==
    CASE k \in 1..6 -> clock = 0
      [] k \in 7..9 -> clock >= 1
      [] k = 10 -> clock < cb.openUntil
      [] k = 11 -> clock >= cb.openUntil
      [] OTHER -> FALSE

\* the downstream handler, where request k reaches it, answers as the
\* scenario has it (500 for requests 7..9, success otherwise) and returns
Treated(k, r) ==
    /\ r.fault = 0
    /\ r.down => r.hcode = IF k \in 7..9 THEN StatusInternalServerError ELSE 0
    /\ k \in 1..6 => clock = 0
    /\ k = 10 => clock < cb.openUntil

Active(w) == rq[w].pc # "idle"

-----------------------------------------------------------------------------
(* Actions *)

\* the server hands a new request to a goroutine
Begin(w) ==
    /\ rq[w].pc = "idle"
    /\ rq' = [rq EXCEPT ![w] = Forward(IdleReq)]
    /\ run' = IF \E v \in Workers \ {w} : Active(v) THEN -1 ELSE run
    /\ scen' = IF /\ scen >= 0
                   /\ Arrives(scen + 1)
                   /\ \A v \in Workers \ {w} : ~Active(v)
                THEN scen ELSE -1
    /\ UNCHANGED <<clock, tickNs, refillTab, chain, jsonx, pipes, forwarded, rl, cb, admits, rejected, drainedAt, postCool>>

\* now := time.Now()
RLNow(w) ==
    /\ rq[w].pc = "rl_now"
    /\ rq' = [rq EXCEPT ![w].now = clock, ![w].pc = "rl_lock"]
    /\ UNCHANGED <<clock, tickNs, refillTab, chain, jsonx, pipes, forwarded, rl, cb, admits, rejected, drainedAt, run, postCool, scen>>

\* rl.mu.Lock()
RLLock(w) ==
    /\ rq[w].pc = "rl_lock"
    /\ rl.mu = 0
    /\ rl' = [rl EXCEPT !.mu = w]
    /\ rq' = [rq EXCEPT ![w].pc = "rl_refill"]
    /\ UNCHANGED <<clock, tickNs, refillTab, chain, jsonx, pipes, forwarded, cb, admits, rejected, drainedAt, run, postCool, scen>>

\* the lazy refill, under the lock
RLRefill(w) ==
    /\ rq[w].pc = "rl_refill"
    /\ rl' = Refilled(rl, rq[w].now)
    /\ rq' = [rq EXCEPT ![w].pc = "rl_decide"]
    /\ admits' = IF rl'.last # rl.last THEN -1 ELSE admits
    /\ rejected' = (rejected /\ rl'.last = rl.last)
    /\ UNCHANGED <<clock, tickNs, refillTab, chain, jsonx, pipes, forwarded, cb, drainedAt, run, postCool, scen>>

\* tokens <= 0: Unlock, http.Error(429), return
RLReject(w) ==
    /\ rq[w].pc = "rl_decide"
    /\ RLBusy(rl)
    /\ rl' = RLRejected(rl)
    /\ rq' = [rq EXCEPT ![w] =
                Returned(HttpError(rq[w], "too many requests",
                                   StatusTooManyRequests))]
    /\ rejected' = (admits >= 0)
    /\ UNCHANGED <<clock, tickNs, refillTab, chain, jsonx, pipes, forwarded, cb, admits, drainedAt, run, postCool, scen>>

\* tokens--, Unlock, next.ServeHTTP
RLAdmit(w) ==
    /\ rq[w].pc = "rl_decide"
    /\ ~RLBusy(rl)
    /\ rl' = RLAdmitted(rl)
    /\ rq' = [rq EXCEPT ![w] = Forward(rq[w])]
    /\ admits' = IF admits >= 0 THEN admits + 1 ELSE -1
    /\ drainedAt' = IF drainedAt = -2 THEN -2
                    ELSE IF rl'.tokens = 0 THEN clock ELSE -1
    /\ forwarded' = IF forwarded >= 0 THEN forwarded + 1 ELSE -1
    /\ UNCHANGED <<clock, tickNs, refillTab, chain, jsonx, pipes, cb, rejected, run, postCool, scen>>

\* cb.mu.Lock() before the open check
CBLock(w) ==
    /\ rq[w].pc = "cb_lock"
    /\ cb.mu = 0
    /\ cb' = [cb EXCEPT !.mu = w]
    /\ rq' = [rq EXCEPT ![w].pc = "cb_check"]
    /\ UNCHANGED <<clock, tickNs, refillTab, chain, jsonx, pipes, forwarded, rl, admits, rejected, drainedAt, run, postCool, scen>>

\* open: Unlock, http.Error(503), return
CBReject(w) ==
    /\ rq[w].pc = "cb_check"
    /\ CBIsOpen(cb, clock)
    /\ cb' = CBRejected(cb)
    /\ rq' = [rq EXCEPT ![w] =
                Returned(HttpError(rq[w], "service unavailable",
                                   StatusServiceUnavailable))]
    /\ run' = IF run = cb.failureThreshold THEN run + 1 ELSE -1
    /\ UNCHANGED <<clock, tickNs, refillTab, chain, jsonx, pipes, forwarded, rl, admits, rejected, drainedAt, postCool, scen>>

\* not open: Unlock and go on to the jitter
CBPass(w) ==
    /\ rq[w].pc = "cb_check"
    /\ ~CBIsOpen(cb, clock)
    /\ cb' = [cb EXCEPT !.mu = 0]
    /\ rq' = [rq EXCEPT ![w].pc = "cb_jitter", ![w].now = clock]
    /\ postCool' = IF postCool = 0 THEN w ELSE postCool
    /\ UNCHANGED <<clock, tickNs, refillTab, chain, jsonx, pipes, forwarded, rl, admits, rejected, drainedAt, run, scen>>

\* time.Duration(j) * time.Millisecond, in nanoseconds
Jitter(j) == j * Millisecond

\* time.Sleep(d): the whole ticks the sleep lasts
SleepTicks(d) == d \div tickNs

\* jitter := time.Duration(rand.Intn(2)) * time.Millisecond; time.Sleep:
\* a sleep shorter than a tick sets no timer: all it does is let the clock
\* and the other goroutines move before the call
CBJitter(w) ==
    /\ rq[w].pc = "cb_jitter"
    /\ \E j \in 0..(JitterN - 1) :
         rq' = [rq EXCEPT ![w].now = 0, ![w].pc = "cb_sleep",
                          ![w].wake = IF SleepTicks(Jitter(j)) = 0 THEN 0
                                      ELSE clock + SleepTicks(Jitter(j))]
    /\ UNCHANGED <<clock, tickNs, refillTab, chain, jsonx, pipes, forwarded, rl, cb, admits, rejected, drainedAt, run, postCool, scen>>

\* the sleep ends; rr := &respRecorder{code: 200}; next.ServeHTTP(rr, r)
CBCall(w) ==
    /\ rq[w].pc = "cb_sleep"
    /\ clock >= rq[w].wake
    /\ rq' = [rq EXCEPT ![w] = Forward([rq[w] EXCEPT !.rec = StatusOK,
                                                     !.wake = 0])]
    /\ UNCHANGED <<clock, tickNs, refillTab, chain, jsonx, pipes, forwarded, rl, cb, admits, rejected, drainedAt, run, postCool, scen>>

\* the downstream handler runs and returns
HandlerReturn(w) ==
    /\ rq[w].pc = "h_run"
    /\ \E c \in HandlerCodes :
         rq' = [rq EXCEPT ![w] =
                  Returned(HandlerWrites(rq[w], c))]
    /\ UNCHANGED <<clock, tickNs, refillTab, chain, jsonx, pipes, forwarded, rl, cb, admits, rejected, drainedAt, run, postCool, scen>>

\* the response is handed to the client and the goroutine is free again
Complete(w) ==
    /\ rq[w].pc = "done"
    /\ rq' = [rq EXCEPT ![w] = IdleReq]
    /\ postCool' = IF postCool = w THEN -1 ELSE postCool
    /\ scen' = IF scen >= 0 /\ Treated(scen + 1, rq[w]) THEN scen + 1 ELSE -1
    /\ UNCHANGED <<clock, tickNs, refillTab, chain, jsonx, pipes, forwarded, rl, cb, admits, rejected, drainedAt, run>>

\* (variant: the outcome is recorded without taking the lock)
CBRLockFree(w) ==
    /\ rq[w].pc = "cb_rlock"
    /\ cb' = [cb EXCEPT !.mu = w]
    /\ rq' = [rq EXCEPT ![w].pc = "cb_record"]
    /\ UNCHANGED <<clock, tickNs, refillTab, chain, jsonx, pipes, forwarded, rl, admits, rejected, drainedAt, run, postCool, scen>>

\* cb.mu.Lock() after next returned
CBRLock(w) ==
    /\ rq[w].pc = "cb_rlock"
    /\ cb.mu = 0
    /\ cb' = [cb EXCEPT !.mu = w]
    /\ rq' = [rq EXCEPT ![w].pc = "cb_record"]
    /\ UNCHANGED <<clock, tickNs, refillTab, chain, jsonx, pipes, forwarded, rl, admits, rejected, drainedAt, run, postCool, scen>>

\* record the outcome, Unlock, return
CBRecord(w) ==
    /\ rq[w].pc = "cb_record"
    /\ cb' = [Recorded(cb, rq[w].rec, clock) EXCEPT !.mu = 0]
    /\ rq' = [rq EXCEPT ![w] = Returned(rq[w])]
    /\ run' = IF IsFailure(rq[w].rec) /\ 0 <= run /\ run < cb.failureThreshold
              THEN run + 1 ELSE -1
    /\ postCool' = IF postCool # -2 /\ Trips(cb, rq[w].rec) THEN 0
                   ELSE postCool
    /\ UNCHANGED <<clock, tickNs, refillTab, chain, jsonx, pipes, forwarded, rl, admits, rejected, drainedAt, scen>>

\* everything but the requests
shared ==
    <<clock, tickNs, refillTab, chain, rl, cb, admits, rejected, drainedAt,
      run, postCool, scen, jsonx, pipes, forwarded, forwarded>>

\* dl := 100 * time.Millisecond, in ticks: the budget ends with the tick it
\* falls in
BudgetTicks == (BudgetMs * Millisecond + tickNs - 1) \div tickNs

\* ctx, cancel := context.WithTimeout(r.Context(), dl); defer cancel();
\* next.ServeHTTP(w, r.WithContext(ctx))
TOEnter(w) ==
    /\ rq[w].pc = "to_enter"
    /\ rq' = [rq EXCEPT ![w] =
                Forward([rq[w] EXCEPT !.ctx = "live",
                                      !.ddl = clock + BudgetTicks])]
    /\ UNCHANGED shared

\* the timer of a live context is due
Expiring(r) == r.ctx = "live" /\ clock >= r.ddl

\* (variant: the context is done, but a goroutine blocked on it is not woken)
ExpiredUnnoticed(r) == [r EXCEPT !.ctx = "expired", !.ddl = 0]

\* (variant: the guard answers 504 itself and abandons the handler, as
\* http.TimeoutHandler would)
ExpiredAborting(r) ==
    Returned(HttpError([r EXCEPT !.ctx = "expired", !.ddl = 0, !.wake = 0],
                       "timeout", 504))

\* the timer of the derived context fires: the context is done, with
\* DeadlineExceeded; a goroutine blocked in a select on ctx.Done() is woken
\* with that case.  Nothing else happens to the request.
Expired(r) ==
    [r EXCEPT !.ctx = "expired",
              !.ddl = 0,
              !.pc = IF r.pc = "h_select" THEN "h_timeout" ELSE r.pc]

DeadlineFire(w) ==
    /\ Expiring(rq[w])
    /\ rq' = [rq EXCEPT ![w] = Expired(rq[w])]
    /\ UNCHANGED shared

\* the downstream handler panics, before or after it wrote a status
HandlerPanic(w) ==
    /\ rq[w].pc = "h_run"
    /\ \E c \in HandlerCodes :
         rq' = [rq EXCEPT ![w] =
                  Panicked(HandlerWrites(rq[w], c))]
    /\ UNCHANGED shared

\* the handler of TestWithTimeouts reaches its select on r.Context().Done()
\* and time.After(d): a context that is done already is taken at once (the
\* timer of time.After has only just been started); a request without a
\* derived context carries the background context, which is never done
HandlerSelect(w) ==
    /\ rq[w].pc = "h_run"
    /\ \E d \in 1..MaxWait :
         rq' = [rq EXCEPT ![w].pc = IF rq[w].ctx = "expired"
                                    THEN "h_timeout" ELSE "h_select",
                          ![w].wake = IF rq[w].ctx = "expired"
                                      THEN 0 ELSE clock + d]
    /\ UNCHANGED shared

\* the timer of time.After fires first: the select takes that case
AfterFire(w) ==
    /\ rq[w].pc = "h_select"
    /\ clock >= rq[w].wake
    /\ rq' = [rq EXCEPT ![w].pc = "h_after", ![w].wake = 0]
    /\ UNCHANGED shared

\* case <-r.Context().Done(): w.WriteHeader(http.StatusRequestTimeout)
HandlerTimeout(w) ==
    /\ rq[w].pc = "h_timeout"
    /\ rq' = [rq EXCEPT ![w] =
                Returned(HandlerWrites([rq[w] EXCEPT !.wake = 0],
                                       StatusRequestTimeout))]
    /\ UNCHANGED shared

\* case <-time.After(d): w.WriteHeader(http.StatusOK)
HandlerAfter(w) ==
    /\ rq[w].pc = "h_after"
    /\ rq' = [rq EXCEPT ![w] = Returned(HandlerWrites(rq[w], StatusOK))]
    /\ UNCHANGED shared

\* a handler that does not look at its context: it blocks for d ticks
HandlerSleep(w) ==
    /\ rq[w].pc = "h_run"
    /\ \E d \in 1..MaxWait :
         rq' = [rq EXCEPT ![w].pc = "h_sleep", ![w].wake = clock + d]
    /\ UNCHANGED shared

\* and then answers and returns
HandlerWake(w) ==
    /\ rq[w].pc = "h_sleep"
    /\ clock >= rq[w].wake
    /\ \E c \in HandlerCodes :
         rq' = [rq EXCEPT ![w] =
                  Returned(HandlerWrites([rq[w] EXCEPT !.wake = 0], c))]
    /\ UNCHANGED shared

\* a panic left the composed handler: net/http logs it and closes the
\* connection, the goroutine is free again
Abort(w) ==
    /\ rq[w].pc = "crashed"
    /\ rq' = [rq EXCEPT ![w] = IdleReq]
    /\ UNCHANGED shared

\* a timer that is due and has not fired: the runtime fires a timer within
\* the tick it is due in
TimerDue(r) ==
    \/ Expiring(r)
    \/ (r.pc \in {"h_select", "h_sleep"} /\ clock >= r.wake)

Tick ==
    /\ clock < MaxTime
    /\ \A w \in Workers : ~TimerDue(rq[w])
    /\ clock' = clock + 1
    /\ UNCHANGED <<tickNs, refillTab, chain, jsonx, pipes, forwarded, rl, cb, rq, admits, rejected, drainedAt, run, postCool, scen>>

-----------------------------------------------------------------------------
(* Package jsonx: the buffer pool *)

\* buffer pointers; nil is 0
Ptrs == 1..MaxBufs

\* new(bytes.Buffer): the zero Buffer
NewBuffer == [len |-> 0, cap |-> 0]

\* the sizes the users of the pool write: "test data", a write that fills
\* a buffer to the ceiling exactly, one byte more, and the 2 MB of
\* TestPoolCapacityLimit
WriteSizes == {9, PoolCeiling, PoolCeiling + 1, 2 * PoolCeiling}

\* the capacity the allocator gives a slice of c bytes: large objects are
\* whole pages of 8192 bytes; the small sizes asked for here (64 doubled)
\* are size classes themselves
RoundUpSize(c) ==
    IF c > 32768 THEN ((c + 8191) \div 8192) * 8192 ELSE c

\* b.Write(p) with len(p) = n: the buffer grows when n bytes do not fit;
\* the zero Buffer gets 64 bytes for a small write, any other at least
\* twice its capacity
BufWrite(b, n) ==
    [len |-> b.len + n,
     cap |-> IF n <= b.cap - b.len THEN b.cap
             ELSE IF b.cap = 0 /\ n <= 64 THEN 64
             ELSE RoundUpSize(Max(b.len + n, 2 * b.cap))]

BufResetNothing(b) == b

\* b.Reset(): the length is 0, the storage is kept
BufReset(b) == [b EXCEPT !.len = 0]

\* the pointers something refers to: the pool or a goroutine's variable
Referenced(p) == bufPool[p] > 0 \/ \E w \in Workers : task[w].buf = p

\* the pointer an allocation returns: one that nothing refers to
Unused == {p \in Ptrs : ~Referenced(p)}

PoolTakenNot(pool, p) == pool

\* the pool without one occurrence of p
PoolTaken(pool, p) == [pool EXCEPT ![p] = @ - 1]

\* bufPool.Put(b)
PoolPut(pool, p) == [pool EXCEPT ![p] = @ + 1]

OversizedNever(b) == FALSE

\* (variant: a buffer at the ceiling is dropped too)
OversizedAtCeiling(b) == b.cap >= PoolCeiling

\* b.Cap() > 1<<20
Oversized(b) == b.cap > PoolCeiling

IdleTask ==
    [pc |-> "idle", buf |-> 0, had |-> -1, ctx |-> << >>, defers |-> << >>,
     id |-> "", late |-> FALSE, code |-> 0, gets |-> 0, puts |-> 0,
     sent |-> FALSE, exit |-> "", body |-> << >>, calls |-> {}]

\* everything of the model but package jsonx
gates ==
    <<clock, tickNs, refillTab, chain, rl, cb, rq, admits, rejected, drainedAt,
      run, postCool, scen, pipes, forwarded>>

\* b := bufPool.Get().(*bytes.Buffer), a pooled buffer
GetPooled(w) ==
    /\ task[w].pc = "idle"
    /\ \E p \in Ptrs :
          /\ bufPool[p] > 0
          /\ bufPool' = PoolTaken(bufPool, p)
          /\ task' = [task EXCEPT ![w] = [IdleTask EXCEPT !.pc = "got",
                                                          !.buf = p,
                                                          !.had = heap[p].len]]
    /\ UNCHANGED <<heap, dropped, gates>>

\* b := bufPool.Get().(*bytes.Buffer) when the pool hands out none of its
\* buffers: New is called
GetNew(w) ==
    /\ task[w].pc = "idle"
    /\ Unused # {}
    /\ LET p == CHOOSE q \in Unused : \A o \in Unused : q <= o
       IN /\ heap' = [heap EXCEPT ![p] = NewBuffer]
          /\ task' = [task EXCEPT ![w] = [IdleTask EXCEPT !.pc = "got",
                                                          !.buf = p]]
    /\ UNCHANGED <<bufPool, dropped, gates>>

\* b.Reset(); return b
GetReset(w) ==
    /\ task[w].pc = "got"
    /\ heap' = [heap EXCEPT ![task[w].buf] = BufReset(@)]
    /\ task' = [task EXCEPT ![w].pc = "held"]
    /\ UNCHANGED <<bufPool, dropped, gates>>

\* the holder writes its data to the buffer
Write(w) ==
    /\ task[w].pc = "held"
    /\ \E n \in WriteSizes :
          heap' = [heap EXCEPT ![task[w].buf] = BufWrite(@, n)]
    /\ task' = [task EXCEPT ![w].pc = "written"]
    /\ UNCHANGED <<bufPool, dropped, gates>>

\* PutBuffer(b): a buffer above the ceiling is left to the collector
PutBuffer(w) ==
    /\ task[w].pc \in {"held", "written"}
    /\ LET p == task[w].buf
       IN IF Oversized(heap[p])
          THEN /\ heap' = [heap EXCEPT ![p] = NewBuffer]
               /\ dropped' = TRUE
               /\ UNCHANGED bufPool
          ELSE /\ bufPool' = PoolPut(bufPool, p)
               /\ UNCHANGED <<heap, dropped>>
    /\ task' = [task EXCEPT ![w] = IdleTask]
    /\ UNCHANGED gates

\* sync.Pool may let go of a pooled buffer at any time
PoolClear ==
    /\ \E p \in Ptrs :
          /\ bufPool[p] > 0
          /\ bufPool' = PoolTaken(bufPool, p)
          /\ heap' = IF bufPool[p] = 1 THEN [heap EXCEPT ![p] = NewBuffer]
                     ELSE heap
    /\ UNCHANGED <<task, dropped, gates>>

\* no buffer exists and nothing uses the pool
InitJsonx ==
    /\ bufPool = [p \in Ptrs |-> 0]
    /\ heap = [p \in Ptrs |-> NewBuffer]
    /\ task = [w \in Workers |-> IdleTask]
    /\ dropped = FALSE

-----------------------------------------------------------------------------
(* Package handlers: GetUser behind withTimeouts and withRecover *)

\* the Deadline of a context without one
NoDeadline == -1

\* context.Background()
Background == [ddl |-> NoDeadline, err |-> "none"]

\* the earlier of two deadlines
Earlier(a, b) ==
    IF a = NoDeadline THEN b ELSE IF b = NoDeadline THEN a ELSE Min(a, b)

WithTimeoutDetached(parent, now, d) == [ddl |-> now + d, err |-> "none"]

\* context.WithTimeout(parent, d) at time now: the child is done when the
\* parent is, and its deadline is the parent's when that is the earlier
WithTimeout(parent, now, d) ==
    [ddl |-> Earlier(parent.ddl, now + d), err |-> parent.err]

\* a duration of ms milliseconds, in ticks
Ticks(ms) == (ms * Millisecond + tickNs - 1) \div tickNs

\* the contexts of a request are a chain, the inbound one first; ending
\* context i with error e ends the contexts derived from it
CtxDone(cs, i, e) ==
    [j \in 1..Len(cs) |->
        IF j >= i /\ cs[j].err = "none" THEN [cs[j] EXCEPT !.err = e]
        ELSE cs[j]]

\* cancel() of context i
Cancel(cs, i) == CtxDone(cs, i, "canceled")

\* the contexts whose deadline has come and whose timer has not fired
Due(cs) ==
    {i \in 1..Len(cs) :
        cs[i].ddl # NoDeadline /\ cs[i].ddl <= clock /\ cs[i].err = "none"}

\* the sizes of the encoded responses: a small one and one the pool does
\* not take back
ResponseSizes == {9, 2 * PoolCeiling}

\* the context GetUser hands to the repository
Own(t) == t.ctx[Len(t.ctx)]

\* http.Error(w, msg, code), w.WriteHeader(code): the first status is sent
Answer(t, code) == IF t.code = 0 THEN [t EXCEPT !.code = code] ELSE t

\* the contexts inbound requests carry: none of its own, one with a
\* deadline to come, one that has expired, one that was cancelled
Inbound ==
    {Background,
     [Background EXCEPT !.err = "canceled"],
     [Background EXCEPT !.ddl = clock, !.err = "deadline"]}
    \cup {[Background EXCEPT !.ddl = clock + k] : k \in 1..(2 * MaxTime)}

\* a request arrives, at withTimeouts or (as in the tests) at GetUser; the
\* requests are served by one goroutine, one after another, and time is
\* counted from their arrival
Arrive(w) ==
    /\ w = 1
    /\ clock = 0
    /\ task[w].pc = "idle"
    /\ \E c \in Inbound, pc \in {"to_enter", "gu_enter"} :
          task' = [task EXCEPT ![w] = [IdleTask EXCEPT !.pc = pc,
                                                       !.ctx = <<c>>]]
    /\ UNCHANGED <<bufPool, heap, dropped, gates>>

\* withTimeouts: ctx, cancel := context.WithTimeout(r.Context(), dl);
\* defer cancel(); next.ServeHTTP(w, r.WithContext(ctx))
UserTimeouts(w) ==
    /\ task[w].pc = "to_enter"
    /\ task' = [task EXCEPT
                  ![w].ctx = Append(@, WithTimeout(Own(task[w]), clock,
                                                   Ticks(BudgetMs))),
                  ![w].pc = "gu_enter"]
    /\ UNCHANGED <<bufPool, heap, dropped, gates>>

\* ctx, cancel := context.WithTimeout(r.Context(), 80*time.Millisecond);
\* defer cancel()
GUEnter(w) ==
    /\ task[w].pc = "gu_enter"
    /\ task' = [task EXCEPT
                  ![w].ctx = Append(@, WithTimeout(Own(task[w]), clock,
                                                   Ticks(UserBudgetMs))),
                  ![w].late = Own(task[w]).err = "deadline",
                  ![w].defers = <<"cancel">>,
                  ![w].pc = "gu_parse"]
    /\ UNCHANGED <<bufPool, heap, dropped, gates>>

\* id, err := strconv.ParseInt(ps.ByName("id"), 10, 64)
GUParse(w) ==
    /\ task[w].pc = "gu_parse"
    /\ \/ task' = [task EXCEPT ![w].id = "ok", ![w].pc = "gu_call"]
       \/ task' = [task EXCEPT
                     ![w] = [Answer(@, StatusBadRequest)
                                EXCEPT !.id = "bad", !.pc = "gu_ret"]]
    /\ UNCHANGED <<bufPool, heap, dropped, gates>>

\* the answer to an error of h.repo.GetByID
RepoFailed(t, err) ==
    [Answer(t, CASE err = "notfound" -> StatusNotFound
                 [] err = "deadline" -> StatusGatewayTimeout
                 [] OTHER -> StatusInternalServerError)
        EXCEPT !.pc = "gu_ret"]

\* user, err := h.repo.GetByID(ctx, id): a query under a context that is
\* done fails with the context's error
GUCall(w) ==
    /\ task[w].pc = "gu_call"
    /\ task' = [task EXCEPT
                  ![w] = IF Own(@).err = "none" THEN [@ EXCEPT !.pc = "gu_wait"]
                         ELSE RepoFailed(@, Own(@).err)]
    /\ UNCHANGED <<bufPool, heap, dropped, gates>>

\* the query ends: with a row, with no row, with a database error, or with
\* the error of the context when that is done
GURepo(w) ==
    /\ task[w].pc = "gu_wait"
    /\ \/ task' = [task EXCEPT ![w].pc = "gu_acquire"]
       \/ \E err \in {"notfound", "failed"} :
             task' = [task EXCEPT ![w] = RepoFailed(@, err)]
       \/ /\ Own(task[w]).err # "none"
          /\ task' = [task EXCEPT ![w] = RepoFailed(@, Own(@).err)]
    /\ UNCHANGED <<bufPool, heap, dropped, gates>>

\* buf := jsonx.GetBuffer(); defer jsonx.PutBuffer(buf)
GUGetBuffer(w) ==
    /\ task[w].pc = "gu_acquire"
    /\ \/ \E p \in Ptrs :
             /\ bufPool[p] > 0
             /\ bufPool' = PoolTaken(bufPool, p)
             /\ heap' = [heap EXCEPT ![p] = BufReset(@)]
             /\ task' = [task EXCEPT ![w].buf = p,
                                     ![w].gets = @ + 1,
                                     ![w].defers = Append(@, "put"),
                                     ![w].pc = "gu_encode"]
       \/ /\ Unused # {}
          /\ LET p == CHOOSE q \in Unused : \A o \in Unused : q <= o
             IN /\ heap' = [heap EXCEPT ![p] = BufReset(NewBuffer)]
                /\ task' = [task EXCEPT ![w].buf = p, ![w].gets = @ + 1,
                                        ![w].defers = Append(@, "put"),
                                        ![w].pc = "gu_encode"]
          /\ UNCHANGED bufPool
    /\ UNCHANGED <<dropped, gates>>

\* jsonx.MarshalToBuffer(userResponse, buf): the encoding is written to the
\* buffer, or the encoder fails and "encode error" is answered, or panics
GUEncode(w) ==
    /\ task[w].pc = "gu_encode"
    /\ \/ /\ \E n \in ResponseSizes :
                heap' = [heap EXCEPT ![task[w].buf] = BufWrite(@, n)]
          /\ task' = [task EXCEPT ![w].pc = "gu_send"]
       \/ /\ task' = [task EXCEPT
                        ![w] = [Answer(@, StatusInternalServerError)
                                   EXCEPT !.pc = "gu_ret"]]
          /\ UNCHANGED heap
       \/ /\ task' = [task EXCEPT ![w].pc = "gu_panic"]
          /\ UNCHANGED heap
    /\ UNCHANGED <<bufPool, dropped, gates>>

\* w.Header().Set(...); w.Write(buf.Bytes()): the bytes go to the
\* transport, or the write panics
GUSend(w) ==
    /\ task[w].pc = "gu_send"
    /\ \/ task' = [task EXCEPT
                     ![w] = [Answer(@, StatusOK)
                                EXCEPT !.sent = TRUE, !.pc = "gu_ret"]]
       \/ task' = [task EXCEPT ![w].pc = "gu_panic"]
    /\ UNCHANGED <<bufPool, heap, dropped, gates>>

DeferredCancelOnly(t) == <<"cancel">>

\* the calls GetUser has deferred, in the order of the defer statements
DeferredCalls(t) == t.defers

\* GetUser returns or panics: its deferred calls run, the last deferred
\* first: jsonx.PutBuffer(buf), then cancel()
GUReturn(w) ==
    /\ task[w].pc \in {"gu_ret", "gu_panic"}
    /\ LET t == task[w]
           calls == DeferredCalls(t)
           put == \E i \in 1..Len(calls) : calls[i] = "put"
           p == t.buf
       IN /\ IF put /\ ~Oversized(heap[p])
             THEN bufPool' = PoolPut(bufPool, p) /\ UNCHANGED <<heap, dropped>>
             ELSE IF put
             THEN /\ heap' = [heap EXCEPT ![p] = NewBuffer]
                  /\ dropped' = TRUE
                  /\ UNCHANGED bufPool
             ELSE UNCHANGED <<bufPool, heap, dropped>>
          /\ task' = [task EXCEPT
                        ![w].puts = IF put THEN @ + 1 ELSE @,
                        ![w].buf = IF put THEN 0 ELSE @,
                        ![w].ctx = IF Len(t.ctx) = 3 THEN Cancel(@, 3)
                                   ELSE << >>,
                        ![w].defers = << >>,
                        ![w].exit = IF t.pc = "gu_ret" THEN "return"
                                    ELSE "panic",
                        ![w].pc = IF Len(t.ctx) = 3 THEN "to_ret" ELSE "done"]
    /\ UNCHANGED gates

\* back in the middleware: withRecover answers a panic, withTimeouts runs
\* its deferred cancel(); the contexts of the request are garbage
UserUnwind(w) ==
    /\ task[w].pc = "to_ret"
    /\ task' = [task EXCEPT
                  ![w] = [(IF @.exit = "panic"
                           THEN Answer(@, StatusInternalServerError) ELSE @)
                             EXCEPT !.ctx = << >>, !.pc = "done"]]
    /\ UNCHANGED <<bufPool, heap, dropped, gates>>

\* the request is over
Finish(w) ==
    /\ task[w].pc = "done"
    /\ task' = [task EXCEPT ![w] = IdleTask]
    /\ heap' = IF task[w].buf = 0 THEN heap
               ELSE [heap EXCEPT ![task[w].buf] = NewBuffer]
    /\ UNCHANGED <<bufPool, dropped, gates>>

Serving(w) == task[w].pc \notin {"idle", "done"}

\* the client goes away: the server cancels the inbound context
CancelInbound(w) ==
    /\ Serving(w)
    /\ task[w].ctx[1].err = "none"
    /\ task' = [task EXCEPT ![w].ctx = Cancel(@, 1)]
    /\ UNCHANGED <<bufPool, heap, dropped, gates>>

\* the timers that are due fire: the contexts from the outermost one whose
\* deadline has come are done
CtxExpire(w) ==
    /\ Serving(w)
    /\ Due(task[w].ctx) # {}
    /\ LET i == CHOOSE j \in Due(task[w].ctx) :
                    \A k \in Due(task[w].ctx) : j <= k
       IN task' = [task EXCEPT ![w].ctx = CtxDone(@, i, "deadline")]
    /\ UNCHANGED <<bufPool, heap, dropped, gates>>

\* where a request waits: for the router to call the handler, and for
\* the database; the other steps take no time on the scale of the ticks
Waits(w) == task[w].pc \in {"idle", "gu_enter", "gu_wait"}

\* time passes while every request waits, once the timers that are due
\* have fired
UserTick ==
    /\ clock < 2 * MaxTime
    /\ \A w \in Workers : Waits(w) /\ Due(task[w].ctx) = {}
    /\ clock' = clock + 1
    /\ UNCHANGED <<tickNs, refillTab, chain, jsonx, pipes, forwarded, rl, cb, rq, admits,
                   rejected, drainedAt, run, postCool, scen>>

-----------------------------------------------------------------------------
(* Package handlers: CreateUser and the strict decoder of package jsonx *)

\* a request body is a sequence of tokens: the braces and the comma of an
\* object, a field with its string value (named by the field), and text
\* that is no JSON
Schema == {"email", "name", "password"}

FieldTokens == Schema \cup {"extra"}

Tokens == {"{", "}", ",", "?"} \cup FieldTokens

\* the objects of up to MaxFields fields
FieldSeqs == UNION {[1..n -> FieldTokens] : n \in 0..MaxFields}

RECURSIVE Members(_)
Members(fs) ==
    IF Len(fs) = 0 THEN << >>
    ELSE IF Len(fs) = 1 THEN fs
    ELSE <<Head(fs), ",">> \o Members(Tail(fs))

Object(fs) == <<"{">> \o Members(fs) \o <<"}">>

Objects == {Object(fs) : fs \in FieldSeqs}

\* the bodies clients send: the objects, the objects cut short, with one
\* token replaced by text that is no JSON, and followed by one more token
Bodies ==
    Objects
    \cup UNION {{SubSeq(o, 1, k) : k \in 0..(Len(o) - 1)} : o \in Objects}
    \cup UNION {{[o EXCEPT ![k] = "?"] : k \in 1..Len(o)} : o \in Objects}
    \cup {o \o <<t>> : o \in Objects, t \in Tokens}

\* the scanner inside an object, at token i: before the first member,
\* after a member, after a comma; it stops at the brace that closes the
\* object
RECURSIVE Scan(_, _, _, _)
Scan(b, i, at, seen) ==
    IF i > Len(b) THEN [err |-> "unexpected EOF", fields |-> seen]
    ELSE IF at \in {"first", "comma"} /\ b[i] \in FieldTokens
    THEN Scan(b, i + 1, "member", seen \cup {b[i]})
    ELSE IF at = "member" /\ b[i] = ","
    THEN Scan(b, i + 1, "comma", seen)
    ELSE IF at \in {"first", "member"} /\ b[i] = "}"
    THEN [err |-> "", fields |-> seen]
    ELSE [err |-> "syntax", fields |-> seen]

DecodeLenient(b) ==
    IF b = << >> THEN [err |-> "EOF", fields |-> {}]
    ELSE IF b[1] # "{" THEN [err |-> "syntax", fields |-> {}]
    ELSE Scan(b, 2, "first", {})

\* dec := jsonx.NewDecoder(r.Body); dec.Decode(&req): the decoder reads
\* one JSON value from the stream and fails on a field the struct lacks
Decode(b) ==
    LET r == DecodeLenient(b)
    IN IF r.err = "" /\ ~(r.fields \subseteq Schema)
       THEN [r EXCEPT !.err = "unknown field"]
       ELSE r

\* validator.Validate(req): the three fields are required
Validate(fields) == Schema \subseteq fields

\* POST /users arrives with a body
CUArrive(w) ==
    /\ w = 1
    /\ task[w].pc = "idle"
    /\ \E b \in Bodies :
          task' = [task EXCEPT ![w] = [IdleTask EXCEPT !.pc = "cu_decode",
                                                       !.body = b]]
    /\ UNCHANGED <<bufPool, heap, dropped, gates>>

\* dec.Decode(&req); on an error "bad json" is answered
CUDecode(w) ==
    /\ task[w].pc = "cu_decode"
    /\ task' = [task EXCEPT
                  ![w] = IF Decode(@.body).err # ""
                         THEN [Answer(@, StatusBadRequest) EXCEPT !.pc = "done"]
                         ELSE [@ EXCEPT !.pc = "cu_validate"]]
    /\ UNCHANGED <<bufPool, heap, dropped, gates>>

\* validator.Validate(req)
CUValidate(w) ==
    /\ task[w].pc = "cu_validate"
    /\ task' = [task EXCEPT
                  ![w] = IF Validate(Decode(@.body).fields)
                         THEN [@ EXCEPT !.calls = @ \cup {"validate"},
                                        !.pc = "cu_hash"]
                         ELSE [Answer(@, StatusBadRequest)
                                  EXCEPT !.calls = @ \cup {"validate"},
                                         !.pc = "done"]]
    /\ UNCHANGED <<bufPool, heap, dropped, gates>>

\* h.hasher.HashPassword(req.Password)
CUHash(w) ==
    /\ task[w].pc = "cu_hash"
    /\ \/ task' = [task EXCEPT ![w].calls = @ \cup {"hash"},
                               ![w].pc = "cu_create"]
       \/ task' = [task EXCEPT
                     ![w] = [Answer(@, StatusInternalServerError)
                                EXCEPT !.calls = @ \cup {"hash"},
                                       !.pc = "done"]]
    /\ UNCHANGED <<bufPool, heap, dropped, gates>>

\* h.repo.Create(r.Context(), user) and the answer
CUCreate(w) ==
    /\ task[w].pc = "cu_create"
    /\ \E code \in {StatusCreated, StatusConflict, StatusInternalServerError} :
          task' = [task EXCEPT
                     ![w] = [Answer(@, code)
                                EXCEPT !.calls = @ \cup {"create"},
                                       !.pc = "done"]]
    /\ UNCHANGED <<bufPool, heap, dropped, gates>>

-----------------------------------------------------------------------------
(* Specifications *)

\* one pipeline is constructed and served
OnePipeline ==
    /\ objs = << >>
    /\ cur = 1
    /\ forwarded = -1

InitCommon ==
    /\ InitJsonx
    /\ OnePipeline
    /\ clock = 0
    /\ scen = -1
    /\ postCool = -1
    /\ rq = [w \in Workers |-> IdleReq]
    /\ rejected = FALSE
    /\ drainedAt = -1

\* one rate limiter in front of a handler, as in TestWithRateLimit
InitRL ==
    /\ InitCommon
    /\ chain = <<"ratelimit", "handler">>
    /\ \E g \in RLConfigs :
         /\ tickNs = g.ns
         /\ refillTab = RefillTable(g.refill, g.per, g.ns)
         /\ \E c \in 1..MaxCapacity : rl = NewRateLimiter(c, g.refill, g.per, 0)
    /\ cb = NewCircuitBreaker(1, OpenFor)
    /\ admits = 0
    /\ run = -1

NextRL ==
    \/ \E w \in Workers :
         \/ Begin(w) \/ RLNow(w) \/ RLLock(w) \/ RLRefill(w)
         \/ RLReject(w) \/ RLAdmit(w) \/ HandlerReturn(w)
         \/ Complete(w)
    \/ Tick

SpecRL == InitRL /\ [][NextRL]_vars

\* the same rate limiter with the forwarded requests counted
InitAdmission ==
    /\ InitJsonx
    /\ objs = << >>
    /\ cur = 1
    /\ forwarded = 0
    /\ clock = 0
    /\ scen = -1
    /\ postCool = -1
    /\ rq = [w \in Workers |-> IdleReq]
    /\ rejected = FALSE
    /\ drainedAt = -2
    /\ chain = <<"ratelimit", "handler">>
    /\ \E g \in RLConfigs :
         /\ tickNs = g.ns
         /\ refillTab = RefillTable(g.refill, g.per, g.ns)
         /\ \E c \in 1..MaxCapacity : rl = NewRateLimiter(c, g.refill, g.per, 0)
    /\ cb = NewCircuitBreaker(1, OpenFor)
    /\ admits = -1
    /\ run = -1

SpecAdmission == InitAdmission /\ [][NextRL]_vars

\* one circuit breaker in front of a handler, as in TestWithBreaker
InitCB ==
    /\ InitCommon
    /\ chain = <<"breaker", "handler">>
    /\ tickNs = Second
    /\ refillTab = RefillTable(1, 1, Second)
    /\ rl = NewRateLimiter(1, 1, 1, 0)
    /\ \E t \in 1..MaxThreshold : cb = NewCircuitBreaker(t, OpenFor)
    /\ admits = -1
    /\ run = 0

NextCB ==
    \/ \E w \in Workers :
         \/ Begin(w) \/ CBLock(w) \/ CBReject(w) \/ CBPass(w) \/ CBJitter(w)
         \/ CBCall(w) \/ HandlerReturn(w) \/ CBRLock(w) \/ CBRecord(w)
         \/ Complete(w)
    \/ Tick

SpecCB == InitCB /\ [][NextCB]_vars

\* the same breaker on a clock of half milliseconds, where the jitter is
\* time that passes
InitJitter ==
    /\ InitCommon
    /\ chain = <<"breaker", "handler">>
    /\ tickNs = Millisecond \div 2
    /\ refillTab = RefillTable(1, 1, Second)
    /\ rl = NewRateLimiter(1, 1, 1, 0)
    /\ \E t \in 1..MaxThreshold : cb = NewCircuitBreaker(t, OpenFor)
    /\ admits = -1
    /\ run = -1

SpecJitter == InitJitter /\ [][NextCB]_vars

\* one gate in front of a handler, either the rate limiter or the breaker
\* with a threshold of several failures, on a clock of seconds: the
\* concurrent tests of each gate
InitGate ==
    \/ InitRL /\ tickNs = Second
    \/ InitCB /\ cb.failureThreshold >= MaxThreshold - 1

NextGate == NextRL \/ NextCB

SpecGate == InitGate /\ [][NextGate]_vars

\* one guard in front of a handler, as in TestWithRecover and
\* TestWithTimeouts, on a clock of 50 ms ticks
GuardChains == {<<"recover", "handler">>, <<"timeouts", "handler">>}

InitGuards ==
    /\ InitCommon
    /\ chain \in GuardChains
    /\ tickNs = 50 * Millisecond
    /\ refillTab = RefillTable(1, 1, Second)
    /\ rl = NewRateLimiter(1, 1, 1, 0)
    /\ cb = NewCircuitBreaker(1, OpenFor)
    /\ admits = -1
    /\ run = -1

NextGuards ==
    \/ \E w \in Workers :
         \/ Begin(w) \/ TOEnter(w) \/ DeadlineFire(w)
         \/ HandlerReturn(w) \/ HandlerPanic(w)
         \/ HandlerSelect(w) \/ AfterFire(w) \/ HandlerTimeout(w)
         \/ HandlerAfter(w) \/ HandlerSleep(w) \/ HandlerWake(w)
         \/ Complete(w) \/ Abort(w)
    \/ Tick

SpecGuards == InitGuards /\ [][NextGuards]_vars

\* h = wrap(h): the wrapping stage runs first and calls the handler it wraps
Wrap(stage, h) == <<stage>> \o h

\* the handler NewRouter returns: the router is wrapped by each middleware
\* in the order of the assignments
NewRouter ==
    Wrap("tracing",
      Wrap("metrics",
        Wrap("breaker",
          Wrap("ratelimit",
            Wrap("timeouts",
              Wrap("recover",
                Wrap("header", <<"handler">>)))))))

\* the pipeline of NewRouter on a clock of seconds, with a small capacity
\* and a threshold of several failures for NewRouter's 1000 and 20
InitPipe ==
    /\ InitJsonx
    /\ OnePipeline
    /\ clock = 0
    /\ rq = [w \in Workers |-> IdleReq]
    /\ chain = NewRouter
    /\ tickNs = Second
    /\ refillTab = RefillTable(1, 1, Second)
    /\ \E c \in 1..MaxCapacity : rl = NewRateLimiter(c, 1, 1, 0)
    /\ \E t \in (MaxThreshold - 1)..MaxThreshold :
         cb = NewCircuitBreaker(t, OpenFor)
    /\ admits = -1
    /\ rejected = FALSE
    /\ drainedAt = -2
    /\ run = -1
    /\ postCool = -2
    /\ scen = -1

\* the pipeline serves PipeWorkers requests at a time
PipeBegin(w) == w <= PipeWorkers /\ Begin(w)

NextPipe ==
    \/ \E w \in Workers :
         \/ PipeBegin(w)
         \/ CBLock(w) \/ CBReject(w) \/ CBPass(w) \/ CBJitter(w) \/ CBCall(w)
         \/ RLNow(w) \/ RLLock(w) \/ RLRefill(w) \/ RLReject(w) \/ RLAdmit(w)
         \/ TOEnter(w) \/ DeadlineFire(w)
         \/ HandlerReturn(w) \/ HandlerPanic(w)
         \/ CBRLock(w) \/ CBRecord(w)
         \/ Complete(w)
    \/ Tick

SpecPipe == InitPipe /\ [][NextPipe]_vars

\* the steps a goroutine takes by itself once it is scheduled; the
\* downstream handler comes to an end, by a return or by a panic
Proceed(w) ==
    \/ CBReject(w) \/ CBPass(w) \/ CBJitter(w) \/ CBCall(w)
    \/ RLNow(w) \/ RLRefill(w) \/ RLReject(w) \/ RLAdmit(w)
    \/ TOEnter(w) \/ CBRecord(w)
    \/ HandlerReturn(w) \/ HandlerPanic(w)

\* mu.Lock(), wherever the goroutine waits for one
Locks(w) == RLLock(w) \/ CBLock(w) \/ CBRLock(w)

\* the goroutines that serve requests at the same time
Contenders == {1, 2}

ContendBegin(w) == w \in Contenders /\ Begin(w)

\* the pipeline of NewRouter with a bucket of one token and a threshold of
\* two failures, on a clock of seconds
InitFair ==
    /\ InitJsonx
    /\ OnePipeline
    /\ clock = 0
    /\ rq = [w \in Workers |-> IdleReq]
    /\ chain = NewRouter
    /\ tickNs = Second
    /\ refillTab = RefillTable(1, 1, Second)
    /\ rl = NewRateLimiter(1, 1, 1, 0)
    /\ cb = NewCircuitBreaker(2, OpenFor)
    /\ admits = -1
    /\ rejected = FALSE
    /\ drainedAt = -2
    /\ run = -1
    /\ postCool = -2
    /\ scen = -1

NextFair ==
    \/ \E w \in Workers :
         \/ ContendBegin(w)
         \/ CBLock(w) \/ CBReject(w) \/ CBPass(w) \/ CBJitter(w) \/ CBCall(w)
         \/ RLNow(w) \/ RLLock(w) \/ RLRefill(w) \/ RLReject(w) \/ RLAdmit(w)
         \/ TOEnter(w) \/ DeadlineFire(w)
         \/ HandlerReturn(w) \/ HandlerPanic(w)
         \/ CBRLock(w) \/ CBRecord(w)
         \/ Complete(w)
    \/ Tick

\* the Go scheduler runs every runnable goroutine, and a sync.Mutex hands
\* its lock to a goroutine that keeps waiting for it (starvation mode)
Scheduling ==
    \A w \in Contenders : WF_vars(Proceed(w)) /\ SF_vars(Locks(w))

\* the pipeline of NewRouter serving two requests at a time under fair
\* scheduling, with handlers that end
SpecPipeFair == InitFair /\ [][NextFair]_vars /\ Scheduling

\* the pipeline of the end-to-end scenario: capacity 5, refill 5 per second,
\* threshold 3, cooldown 2 s
EndToEnd == [capacity |-> 5, refill |-> 5, per |-> 1, threshold |-> 3]

InitE2E ==
    /\ InitJsonx
    /\ OnePipeline
    /\ clock = 0
    /\ rq = [w \in Workers |-> IdleReq]
    /\ chain = NewRouter
    /\ tickNs = Second
    /\ refillTab = RefillTable(EndToEnd.refill, EndToEnd.per, Second)
    /\ rl = NewRateLimiter(EndToEnd.capacity, EndToEnd.refill, EndToEnd.per, 0)
    /\ cb = NewCircuitBreaker(EndToEnd.threshold, OpenFor)
    /\ admits = -1
    /\ rejected = FALSE
    /\ drainedAt = -2
    /\ run = -1
    /\ postCool = -2
    /\ scen = 0

SpecE2E == InitE2E /\ [][NextPipe]_vars

\* the buffer pool used by concurrent goroutines, as in
\* TestBufferPoolConcurrency; no request is served
InitPool ==
    /\ InitCommon
    /\ chain = <<"handler">>
    /\ tickNs = Second
    /\ refillTab = RefillTable(1, 1, Second)
    /\ rl = NewRateLimiter(1, 1, 1, 0)
    /\ cb = NewCircuitBreaker(1, OpenFor)
    /\ admits = -1
    /\ run = -1

NextPool ==
    \/ \E w \in Workers :
          \/ GetPooled(w)
          \/ GetNew(w)
          \/ GetReset(w)
          \/ Write(w)
          \/ PutBuffer(w)
    \/ PoolClear

SpecPool == InitPool /\ [][NextPool]_vars

\* GetUser served through withTimeouts and withRecover, or called as the
\* tests call it, on ticks of 20 ms
InitUser ==
    /\ InitCommon
    /\ chain = <<"timeouts", "recover", "handler">>
    /\ tickNs = 20 * Millisecond
    /\ refillTab = RefillTable(1, 1, Second)
    /\ rl = NewRateLimiter(1, 1, 1, 0)
    /\ cb = NewCircuitBreaker(1, OpenFor)
    /\ admits = -1
    /\ run = -1

NextUser ==
    \/ \E w \in Workers :
          \/ Arrive(w)
          \/ UserTimeouts(w)
          \/ GUEnter(w)
          \/ GUParse(w)
          \/ GUCall(w)
          \/ GURepo(w)
          \/ GUGetBuffer(w)
          \/ GUEncode(w)
          \/ GUSend(w)
          \/ GUReturn(w)
          \/ UserUnwind(w)
          \/ Finish(w)
          \/ CancelInbound(w)
          \/ CtxExpire(w)
    \/ UserTick

SpecUser == InitUser /\ [][NextUser]_vars

\* CreateUser called with every body, as in TestCreateUser
InitCreate ==
    /\ InitCommon
    /\ chain = <<"handler">>
    /\ tickNs = Second
    /\ refillTab = RefillTable(1, 1, Second)
    /\ rl = NewRateLimiter(1, 1, 1, 0)
    /\ cb = NewCircuitBreaker(1, OpenFor)
    /\ admits = -1
    /\ run = -1

NextCreate ==
    \E w \in Workers :
        \/ CUArrive(w)
        \/ CUDecode(w)
        \/ CUValidate(w)
        \/ CUHash(w)
        \/ CUCreate(w)
        \/ Finish(w)

SpecCreate == InitCreate /\ [][NextCreate]_vars

\* two pipelines constructed one after the other with the same capacity
\* and threshold, each a gate in front of a handler, served by different
\* goroutines
Groups == {1, 2}

\* the pipeline whose requests goroutine w serves: one goroutine each
GroupOf(w) == w

\* (variant: the constructors hand out one struct, kept by the package)
AllocatedOnce(g) == 1

\* return &RateLimiter{...}, return &CircuitBreaker{...}: the address of
\* the structs made for pipeline g; every construction allocates
Allocated(g) == g

\* the structs the middlewares of pipeline g point to
Structs(g) == IF g = cur THEN [rl |-> rl, cb |-> cb] ELSE objs[Allocated(g)]

\* the scheduler turns to the goroutines of pipeline g
Switch(g) ==
    /\ g # cur
    /\ objs' = [objs EXCEPT ![Allocated(cur)] = [rl |-> rl, cb |-> cb]]
    /\ rl' = objs'[Allocated(g)].rl
    /\ cb' = objs'[Allocated(g)].cb
    /\ cur' = g
    /\ UNCHANGED <<clock, tickNs, refillTab, chain, jsonx, rq, admits,
                   rejected, drainedAt, run, postCool, scen, forwarded>>

InitIso ==
    /\ InitJsonx
    /\ clock = 0
    /\ rq = [w \in Workers |-> IdleReq]
    /\ chain \in {<<"ratelimit", "handler">>, <<"breaker", "handler">>}
    /\ tickNs = Second
    /\ refillTab = RefillTable(1, 2, Second)
    /\ \E c \in {2}, t \in {2} :
         /\ rl = NewRateLimiter(c, 1, 2, 0)
         /\ cb = NewCircuitBreaker(t, OpenFor)
         /\ objs = [a \in {Allocated(g) : g \in Groups} |->
                      [rl |-> NewRateLimiter(c, 1, 2, 0),
                       cb |-> NewCircuitBreaker(t, OpenFor)]]
    /\ cur = 1
    /\ forwarded = -1
    /\ admits = -1
    /\ rejected = FALSE
    /\ drainedAt = -2
    /\ run = -1
    /\ postCool = -2
    /\ scen = -1

NextIso ==
    \/ \E w \in Workers :
         /\ GroupOf(w) = cur
         /\ \/ Begin(w)
            \/ RLNow(w) \/ RLLock(w) \/ RLRefill(w) \/ RLReject(w)
            \/ RLAdmit(w)
            \/ CBLock(w) \/ CBReject(w) \/ CBPass(w) \/ CBJitter(w)
            \/ CBCall(w) \/ CBRLock(w) \/ CBRecord(w)
            \/ HandlerReturn(w)
            \/ Complete(w)
    \/ \E g \in Groups : Switch(g)
    \/ Tick

SpecIso == InitIso /\ [][NextIso]_vars

-----------------------------------------------------------------------------
(* Rate limiter properties, under SpecRL *)

\* C1: for every interleaving of requests and every sequence of elapsed
\* times, 0 <= tokens <= capacity holds in every state, so in particular
\* after every refill step and every admit/reject decision.
C1_TokensWithinCapacity == 0 <= rl.tokens /\ rl.tokens <= rl.cap

\* a refill that had to be clamped: the bucket was full and a token accrued
C1_Witness ==
    \E w \in Workers :
        /\ rq[w].pc = "rl_decide"
        /\ rq[w].now > 0
        /\ rl.last = rq[w].now
        /\ rl.tokens = rl.cap
        /\ admits = -1

\* C2: as long as no refill has added a token (in particular when no time
\* elapses), every admission takes exactly one token, at most capacity
\* requests are forwarded, a 429 is answered only once capacity requests
\* were forwarded, and a request that was not forwarded got the 429.
C2_FirstCapacityAdmitted ==
    admits >= 0 =>
        /\ admits <= rl.cap
        /\ rl.tokens = rl.cap - admits
        /\ rejected => admits = rl.cap
        /\ \A w \in Workers :
             rq[w].pc = "done" =>
                IF rq[w].down
                THEN Status(rq[w]) # StatusTooManyRequests
                ELSE Status(rq[w]) = StatusTooManyRequests /\ rejected

\* capacity requests forwarded at time zero and the next one answered 429
C2_Witness ==
    /\ clock = 0
    /\ rl.cap = MaxCapacity
    /\ admits = rl.cap
    /\ rejected
    /\ \E w \in Workers :
         rq[w].pc = "done" /\ rq[w].code = StatusTooManyRequests

\* C3: a request that finds tokens <= 0 after the refill step is answered
\* 429, the next handler is not invoked for it, and tokens is left as the
\* refill step left it.
C3_RejectTakesNoToken ==
    [][\A w \in Workers :
          (rq[w].pc = "rl_decide" /\ rl.tokens <= 0 /\ rq'[w].pc # "rl_decide")
          => /\ rq'[w].pc = "done"
             /\ Status(rq'[w]) = StatusTooManyRequests
             /\ ~rq'[w].down
             /\ rl'.tokens = rl.tokens
             /\ rl'.last = rl.last]_vars

\* a rejected request, after a refill step that added nothing
C3_Witness ==
    \E w \in Workers :
        /\ rq[w].pc = "done"
        /\ rq[w].code = StatusTooManyRequests
        /\ ~rq[w].down
        /\ rl.tokens = 0
        /\ rl.last > 0

\* C4: once an admission has drained the bucket and nothing was admitted
\* since, a request whose sampled time is at least per/refill later than the
\* drain is admitted.
C4_RefillAfterDrain ==
    [][\A w \in Workers :
          (/\ rq[w].pc = "rl_decide"
           /\ drainedAt >= 0
           /\ rl.refill * (rq[w].now - drainedAt) >= rl.per
           /\ rq'[w].pc # "rl_decide")
          => rq'[w].down /\ rl'.tokens = rl.tokens - 1]_vars

\* a request admitted on the single token its own refill added to a drained
\* bucket
C4_Witness ==
    \E w \in Workers :
        /\ rq[w].pc = "h_run"
        /\ rl.last > 0
        /\ rl.tokens = 0
        /\ drainedAt = rl.last
        /\ rl.cap = MaxCapacity

-----------------------------------------------------------------------------
(* Circuit breaker properties, under SpecCB *)

\* worker w takes a step
Steps(w) == rq'[w] # rq[w]

\* C5: from a fresh breaker with threshold T, sequential calls that all fail
\* are never rejected while fewer than T were made (the score counts them
\* and the breaker was never opened), each returns the handler's status to
\* the caller, the T-th one opens the breaker for openFor, and the request
\* right after it, checked before openUntil, gets 503 without downstream
\* being invoked.
C5_ThresholdFailuresTrip ==
    /\ [](/\ (0 <= run /\ run < cb.failureThreshold)
              => cb.failures = run /\ cb.openUntil = 0
          /\ run = cb.failureThreshold
              => cb.failures = 0 /\ cb.openUntil > 0
          /\ \A w \in Workers :
                rq[w].pc = "done" /\ rq[w].down
                => Status(rq[w]) = rq[w].rec)
    /\ [][\A w \in Workers :
            /\ (/\ rq[w].pc = "cb_record"
                /\ rq[w].rec >= 500
                /\ run = cb.failureThreshold - 1
                /\ Steps(w))
               => /\ run' = cb.failureThreshold
                  /\ cb'.openUntil = clock + cb.openFor
                  /\ Status(rq'[w]) = rq[w].rec
            /\ (/\ rq[w].pc = "cb_check"
                /\ run = cb.failureThreshold
                /\ clock < cb.openUntil
                /\ Steps(w))
               => /\ rq'[w].pc = "done"
                  /\ Status(rq'[w]) = 503
                  /\ ~rq'[w].down]_vars

\* the request after the T-th failing call of a breaker with threshold > 1
\* was answered 503 without reaching downstream
C5_Witness ==
    \E w \in Workers :
        /\ cb.failureThreshold > 1
        /\ rq[w].pc = "done"
        /\ rq[w].code = StatusServiceUnavailable
        /\ ~rq[w].down
        /\ run = cb.failureThreshold + 1

\* C6: whatever the score and however the breaker was opened, a request whose
\* check happens at a time now >= openUntil passes it, and a request that
\* passed can only go on to invoke downstream.
C6_ClosedAfterCooldown ==
    [][\A w \in Workers :
          /\ (rq[w].pc = "cb_check" /\ clock >= cb.openUntil /\ Steps(w))
             => rq'[w].pc = "cb_jitter"
          /\ (rq[w].pc = "cb_jitter" /\ Steps(w)) => rq'[w].pc = "cb_sleep"
          /\ (rq[w].pc = "cb_sleep" /\ Steps(w))
             => rq'[w].pc = "h_run" /\ rq'[w].down]_vars

\* a request has just passed the check of a breaker that was opened, at a
\* time when the cooldown had elapsed and the score was not zero
C6_Witness ==
    \E w \in Workers :
        /\ rq[w].pc = "cb_jitter"
        /\ rq[w].now = clock
        /\ cb.openUntil > 0
        /\ clock >= cb.openUntil
        /\ cb.failures > 0

\* C7: a request whose check happens while now < openUntil is answered 503,
\* never invokes downstream, and leaves the score and openUntil as they were.
C7_OpenRejects ==
    [][\A w \in Workers :
          (rq[w].pc = "cb_check" /\ clock < cb.openUntil /\ Steps(w))
          => /\ rq'[w].pc = "done"
             /\ Status(rq'[w]) = 503
             /\ ~rq'[w].down
             /\ cb'.failures = cb.failures
             /\ cb'.openUntil = cb.openUntil]_vars

\* a request was rejected by an open breaker whose score is not zero
C7_Witness ==
    \E w \in Workers :
        /\ rq[w].pc = "done"
        /\ rq[w].code = StatusServiceUnavailable
        /\ ~rq[w].down
        /\ clock < cb.openUntil
        /\ cb.failures > 0

\* C8: the score is never negative, and every step that sets openUntil (to
\* now + openFor, nothing else sets it) leaves the score at 0; the recording
\* of a failure that brings the score to the threshold is such a step.
C8_ScoreNonNegativeAndReset ==
    /\ [](cb.failures >= 0)
    /\ [][/\ cb'.openUntil # cb.openUntil
             => cb'.openUntil = clock + cb.openFor /\ cb'.failures = 0
          /\ \A w \in Workers :
                (/\ rq[w].pc = "cb_record"
                 /\ rq[w].rec >= 500
                 /\ cb.failures + 1 >= cb.failureThreshold
                 /\ Steps(w))
                => cb'.openUntil = clock + cb.openFor /\ cb'.failures = 0]_vars

\* a breaker with threshold > 1 has just been opened by a failing call
C8_Witness ==
    \E w \in Workers :
        /\ cb.failureThreshold > 1
        /\ rq[w].pc = "done"
        /\ rq[w].down
        /\ rq[w].rec >= 500
        /\ cb.openUntil = clock + cb.openFor
        /\ cb.failures = 0

\* C9: the score k is always in 0..threshold-1 between critical sections, and
\* the recording of a call that ended below 500 makes it max(0, k - 2) and
\* leaves openUntil alone; so a score >= 3 is not reset to 0 by one success.
C9_DecayOnSuccess ==
    /\ [](0 <= cb.failures /\ cb.failures < cb.failureThreshold)
    /\ [][\A w \in Workers :
            (rq[w].pc = "cb_record" /\ rq[w].rec < 500 /\ Steps(w))
            => /\ cb'.failures = Max(0, cb.failures - 2)
               /\ cb'.openUntil = cb.openUntil
               /\ cb.failures >= 3 => cb'.failures > 0]_vars

\* a success has been recorded and left the score at 1 (so it was 3) in a
\* breaker that was never opened
C9_Witness ==
    \E w \in Workers :
        /\ rq[w].pc = "done"
        /\ rq[w].down
        /\ rq[w].rec < 500
        /\ cb.failures = 1
        /\ cb.openUntil = 0
        /\ \A v \in Workers \ {w} : ~Active(v)

\* the ordinary rule applied to the outcome of the request of worker w
OrdinaryOutcome(w) ==
    IF rq[w].rec >= 500
    THEN IF cb.failures + 1 >= cb.failureThreshold
         THEN cb'.openUntil = clock + cb.openFor /\ cb'.failures = 0
         ELSE cb'.openUntil = cb.openUntil /\ cb'.failures = cb.failures + 1
    ELSE cb'.openUntil = cb.openUntil
         /\ cb'.failures = Max(0, cb.failures - 2)

\* C10 as stated: the first request checked after the cooldown passes, its
\* outcome is recorded by the ordinary rule, and with threshold > 1 its
\* failure does not re-open the breaker.
C10_NoHalfOpenAsStated ==
    [][\A w \in Workers :
          /\ (/\ rq[w].pc = "cb_check"
              /\ postCool = 0
              /\ clock >= cb.openUntil
              /\ Steps(w))
             => rq'[w].pc = "cb_jitter"
          /\ (rq[w].pc = "cb_record" /\ postCool = w /\ Steps(w))
             => /\ OrdinaryOutcome(w)
                /\ (rq[w].rec >= 500 /\ cb.failureThreshold > 1)
                   => cb'.openUntil = cb.openUntil]_vars

\* C10, amended: the first request checked after the cooldown passes and its
\* outcome is recorded by the ordinary rule; its failure re-opens the
\* breaker exactly when the score already stood at threshold - 1, which
\* calls admitted before the breaker opened and failing since can bring
\* about; with the score below that it does not re-open it.
C10_NoHalfOpen ==
    [][\A w \in Workers :
          /\ (/\ rq[w].pc = "cb_check"
              /\ postCool = 0
              /\ clock >= cb.openUntil
              /\ Steps(w))
             => rq'[w].pc = "cb_jitter"
          /\ (rq[w].pc = "cb_record" /\ postCool = w /\ Steps(w))
             => /\ OrdinaryOutcome(w)
                /\ (rq[w].rec >= 500 /\ cb.failures + 1 < cb.failureThreshold)
                   => cb'.openUntil = cb.openUntil
                /\ (rq[w].rec >= 500 /\ cb.failures + 1 = cb.failureThreshold)
                   => cb'.openUntil = clock + cb.openFor]_vars

\* the first request admitted after the cooldown of a breaker with
\* threshold > 1 has failed, and the breaker has stayed closed
C10_Witness ==
    \E w \in Workers :
        /\ cb.failureThreshold > 1
        /\ postCool = w
        /\ rq[w].pc = "done"
        /\ rq[w].down
        /\ rq[w].rec >= 500
        /\ cb.failures > 0
        /\ cb.openUntil > 0
        /\ clock >= cb.openUntil


-----------------------------------------------------------------------------
(* Recovery and deadline guard properties, under SpecGuards *)

Ended(w) == rq[w].pc \in {"done", "crashed"}

InternalBody == <<"internal server error">>

\* C16 as stated: behind the recovery guard, a panic of the handler does not
\* leave the guard, the guard returns and the response is 500 with the
\* generic body; without a panic the guard adds nothing to the response.
C16_RecoverAnswers500AsStated ==
    \A w \in Workers :
        chain[1] = "recover" /\ Ended(w) =>
            /\ rq[w].pc = "done"
            /\ rq[w].fault # 0 =>
                   /\ Status(rq[w]) = StatusInternalServerError
                   /\ rq[w].body = InternalBody
            /\ rq[w].fault = 0 =>
                   /\ rq[w].code = rq[w].hcode
                   /\ rq[w].body = << >>

\* What the code does instead (C16): the guard answers 500 when the handler
\* had written no status before it panicked; a status the handler wrote
\* before it panicked stands, with the generic body after it.
C16_RecoverAnswers500 ==
    \A w \in Workers :
        chain[1] = "recover" /\ Ended(w) =>
            /\ rq[w].pc = "done"
            /\ rq[w].fault # 0 =>
                   /\ Status(rq[w]) = IF rq[w].hcode = 0
                                      THEN StatusInternalServerError
                                      ELSE rq[w].hcode
                   /\ rq[w].body = InternalBody
            /\ rq[w].fault = 0 =>
                   /\ rq[w].code = rq[w].hcode
                   /\ rq[w].body = << >>

\* a handler wrote 404, then panicked, and the client is answered 404
C16_Witness ==
    \E w \in Workers :
        /\ chain[1] = "recover"
        /\ rq[w].pc = "done"
        /\ rq[w].fault # 0
        /\ rq[w].hcode = 404
        /\ Status(rq[w]) = 404
        /\ rq[w].body = InternalBody

\* C18: behind the deadline guard, a handler that waits on its context and
\* on a timer due after the deadline is woken by the context when the budget
\* expires, at that tick and not later, never by its own timer, and the
\* request then completes with the handler's timeout answer.
C18_CooperativeTimeout ==
    /\ [](\A w \in Workers :
            /\ rq[w].pc = "h_select" /\ rq[w].ctx # "none" =>
                   rq[w].ctx = "live" /\ clock <= rq[w].ddl
            /\ rq[w].pc = "h_timeout" => rq[w].ctx = "expired")
    /\ [][\A w \in Workers :
            /\ (/\ rq[w].pc = "h_select"
                /\ rq[w].ctx = "live"
                /\ rq[w].wake > rq[w].ddl
                /\ Steps(w))
               => /\ rq'[w].pc = "h_timeout"
                  /\ rq'[w].ctx = "expired"
                  /\ clock = rq[w].ddl
            /\ (rq[w].pc = "h_timeout" /\ Steps(w))
               => /\ rq'[w].pc = "done"
                  /\ rq'[w].hcode = StatusRequestTimeout
                  /\ Status(rq'[w]) = StatusRequestTimeout]_vars

\* the handler was woken by the context while its own timer is not yet due
C18_Witness ==
    \E w \in Workers :
        /\ chain[1] = "timeouts"
        /\ rq[w].pc = "h_timeout"
        /\ rq[w].ctx = "expired"
        /\ clock < rq[w].wake

\* C19: the deadline guard has run cancel by the time it is left, whether
\* the handler returned, answered an error, panicked or was timed out: a
\* context is live or expired only while its request is inside the guard.
C19_CancelOnEveryPath ==
    \A w \in Workers :
        /\ rq[w].ctx \in {"live", "expired"} =>
               \E d \in 1..rq[w].depth : chain[d] = "timeouts"
        /\ chain[1] = "timeouts" /\ Ended(w) =>
               rq[w].ctx = "cancelled" /\ rq[w].ddl = 0
        /\ rq[w].pc = "idle" => rq[w].ctx = "none"

\* one request left the guard by a panic, another after its deadline fired
C19_Witness ==
    \E w, v \in Workers :
        /\ chain[1] = "timeouts"
        /\ rq[w].pc = "crashed" /\ rq[w].ctx = "cancelled"
        /\ rq[v].pc = "done" /\ rq[v].ctx = "cancelled"
        /\ rq[v].hcode = StatusRequestTimeout

\* C20: a handler that does not look at its context is not touched by the
\* expiry of the deadline: the expiry changes the context only, the request
\* stays in the handler until the handler's own wait ends, and the response
\* is what the handler wrote.
C20_CooperativeOnly ==
    /\ [](\A w \in Workers :
            chain[1] = "timeouts" /\ Ended(w) /\ rq[w].fault = 0 =>
                rq[w].code = rq[w].hcode /\ rq[w].body = << >>)
    /\ [][\A w \in Workers :
            rq[w].pc = "h_sleep" /\ Steps(w) =>
                \/ /\ rq[w].ctx = "live"
                   /\ rq'[w] = [rq[w] EXCEPT !.ctx = "expired", !.ddl = 0]
                \/ /\ clock >= rq[w].wake
                   /\ rq'[w].pc = "done"
                   /\ rq'[w].code = rq'[w].hcode
                   /\ rq'[w].body = << >>]_vars

\* the deadline has expired and the handler is still running, unanswered
C20_Witness ==
    \E w \in Workers :
        /\ chain[1] = "timeouts"
        /\ rq[w].pc = "h_sleep"
        /\ rq[w].ctx = "expired"
        /\ clock < rq[w].wake
        /\ rq[w].code = 0

-----------------------------------------------------------------------------
(* Pipeline properties, under SpecPipe *)

\* the request of worker w has entered the stage and not left it
Inside(w, stage) == \E d \in 1..rq[w].depth : chain[d] = stage

\* the request of worker w is running downstream of the stage
Below(w, stage) == \E d \in 1..(rq[w].depth - 1) : chain[d] = stage

\* the order of the stages as documented, outermost first
DocumentedOrder ==
    <<"header", "recover", "timeouts", "ratelimit", "breaker", "metrics",
      "tracing", "handler">>

\* C11 as stated: a request runs through the stages in the documented order,
\* so an earlier stage is entered before and left after each later one: a
\* request inside a stage is inside every stage documented before it.
C11_DocumentedOrderHolds ==
    \A w \in Workers :
        \A j \in 1..Len(DocumentedOrder) : \A i \in 1..(j - 1) :
            Inside(w, DocumentedOrder[j]) => Inside(w, DocumentedOrder[i])

\* the breaker is running and the Server header has not been stamped yet
C11_Witness ==
    \E w \in Workers :
        /\ rq[w].pc = "cb_lock"
        /\ Inside(w, "tracing") /\ Inside(w, "metrics")
        /\ ~Inside(w, "header")
        /\ ~rq[w].server

\* C12 as stated: a request answered 429 by the rate limiter reaches no
\* later stage, and no step of that request changes the failure score or
\* openUntil.
C12_RejectionLeavesCircuit ==
    /\ [](\A w \in Workers :
            rq[w].code = StatusTooManyRequests =>
                ~rq[w].down /\ rq[w].ctx = "none" /\ ~rq[w].server)
    /\ [][\A w \in Workers :
            rq[w].code = StatusTooManyRequests /\ Steps(w) =>
                /\ cb'.failures = cb.failures
                /\ cb'.openUntil = cb.openUntil]_vars

\* a 429 is about to be recorded by the breaker while the score is positive
C12_Witness ==
    \E w \in Workers :
        /\ rq[w].pc = "cb_record"
        /\ rq[w].code = StatusTooManyRequests
        /\ rq[w].rec = StatusTooManyRequests
        /\ cb.failures > 0

\* C15: a request holds the bucket lock only inside the rate limiter's
\* critical section and the breaker lock only inside the breaker's two
\* critical sections: a request running downstream of a gate does not hold
\* that gate's lock, and a request in the handler holds neither.
C15_NoLockAcrossNext ==
    \A w \in Workers :
        /\ rl.mu = w => rq[w].pc \in {"rl_refill", "rl_decide"}
        /\ cb.mu = w => rq[w].pc \in {"cb_check", "cb_record"}
        /\ Below(w, "ratelimit") => rl.mu # w
        /\ Below(w, "breaker") => cb.mu # w
        /\ Inside(w, "handler") => rl.mu # w /\ cb.mu # w

\* a request is in the handler and both locks are free for anyone to take
C15_Witness ==
    \E w \in Workers :
        /\ rq[w].pc = "h_run"
        /\ Below(w, "ratelimit") /\ Below(w, "breaker")
        /\ rl.mu = 0 /\ cb.mu = 0

\* C17: a panic of the handler is stopped by the recovery guard and reaches
\* no stage outside it; once it is handled no lock is held by the request,
\* the bucket is within 0..capacity and the score is not negative.
C17_RecoverIsFaultBoundary ==
    /\ 0 <= rl.tokens /\ rl.tokens <= rl.cap
    /\ cb.failures >= 0
    /\ \A w \in Workers :
          rq[w].fault # 0 =>
              /\ chain[rq[w].fault] = "recover"
              /\ rq[w].pc # "crashed"
              /\ rl.mu # w
              /\ rq[w].pc \in {"cb_rlock", "done"} => cb.mu # w
              /\ rq[w].ctx = "cancelled"

C17_Witness ==
    \E w \in Workers :
        /\ rq[w].pc = "done"
        /\ rq[w].fault # 0
        /\ chain[rq[w].fault] = "recover"
        /\ rq[w].rec = StatusInternalServerError
        /\ rl.mu = 0 /\ cb.mu = 0

-----------------------------------------------------------------------------
(* The end-to-end scenario, under SpecE2E *)

\* C13: served as the scenario has them, requests 1..5 are answered 200 by
\* the handler, request 6 is answered 429, requests 7..9 are answered the
\* handler's 500 and the third of them opens the breaker, request 10 is
\* answered 503 without reaching the handler, and request 11 reaches the
\* handler again.
C13_EndToEnd ==
    \A w \in Workers :
        rq[w].pc = "done" /\ scen >= 0 /\ Treated(scen + 1, rq[w]) =>
            /\ scen + 1 \in 1..5 =>
                   Status(rq[w]) = StatusOK /\ rq[w].down
            /\ scen + 1 = 6 =>
                   Status(rq[w]) = StatusTooManyRequests /\ ~rq[w].down
            /\ scen + 1 \in 7..9 =>
                   /\ Status(rq[w]) = StatusInternalServerError
                   /\ rq[w].down
                   /\ cb.openUntil > 0 <=> scen + 1 = 9
            /\ scen + 1 = 10 =>
                   Status(rq[w]) = StatusServiceUnavailable /\ ~rq[w].down
            /\ scen + 1 = 11 => rq[w].down

\* all eleven requests were served as in the scenario
C13_Witness == scen = 11

-----------------------------------------------------------------------------
(* Concurrency of the gates, under SpecGate *)

InBucketSection(w) == rq[w].pc \in {"rl_refill", "rl_decide"}

InBreakerSection(w) == rq[w].pc \in {"cb_check", "cb_record"}

\* C14: the critical sections of each gate exclude one another, a request
\* is in one only as the holder of the lock, and no update is lost: while
\* no time has passed no more requests are admitted than the capacity, the
\* score changes only in a step of the lock's holder, and a failing
\* completion below the threshold raises it by exactly one.
C14_GatesAreAtomic ==
    /\ [](/\ \A w \in Workers :
               /\ InBucketSection(w) => rl.mu = w
               /\ InBreakerSection(w) => cb.mu = w
          /\ \A w, v \in Workers :
               w # v => /\ ~(InBucketSection(w) /\ InBucketSection(v))
                        /\ ~(InBreakerSection(w) /\ InBreakerSection(v))
          /\ admits <= rl.cap
          /\ clock = 0 /\ chain[1] = "ratelimit" =>
               admits + rl.tokens = rl.cap)
    /\ [][/\ cb'.failures # cb.failures =>
               \E w \in Workers :
                   cb.mu = w /\ rq[w].pc = "cb_record" /\ Steps(w)
          /\ \A w \in Workers :
               (/\ rq[w].pc = "cb_record"
                /\ Steps(w)
                /\ IsFailure(rq[w].rec)
                /\ cb.failures + 1 < cb.failureThreshold)
               => cb'.failures = cb.failures + 1]_vars

\* two failing calls have completed at the same time: one is recorded, the
\* other holds the lock to be recorded next
C14_Witness ==
    \E w, v \in Workers :
        /\ w # v
        /\ rq[w].pc = "done" /\ IsFailure(rq[w].rec)
        /\ rq[v].pc = "cb_record" /\ IsFailure(rq[v].rec)
        /\ cb.failures = 1
        /\ cb.failureThreshold > 2

-----------------------------------------------------------------------------
(* Buffer pool properties, under SpecPool *)

\* GetBuffer has returned to worker w and w has not written yet
Acquired(w) == task[w].pc = "held"

\* C22: the buffer GetBuffer returns has length 0, whatever was acquired,
\* written and released before, also when it is a recycled buffer that was
\* released with data in it.
C22_AcquiredIsEmpty ==
    \A w \in Workers : Acquired(w) => heap[task[w].buf].len = 0

\* a recycled buffer that held data when the pool handed it out
C22_Witness ==
    \E w \in Workers :
        Acquired(w) /\ task[w].had > 0 /\ heap[task[w].buf].len = 0

\* C23: every buffer in the pool's free list has length 0.
C23_PooledBuffersAreEmpty ==
    \A p \in Ptrs : bufPool[p] > 0 => heap[p].len = 0

\* a buffer lies in the pool with the data its last holder wrote
C23_Witness ==
    \E p \in Ptrs : bufPool[p] > 0 /\ heap[p].len = 9

\* C24: no buffer in the free list and no buffer GetBuffer returns has a
\* capacity above the ceiling.
C24_CeilingKept ==
    /\ \A p \in Ptrs : bufPool[p] > 0 => heap[p].cap <= PoolCeiling
    /\ \A w \in Workers : Acquired(w) => heap[task[w].buf].cap <= PoolCeiling

\* after an oversized buffer was dropped, a recycled buffer is acquired whose
\* capacity is the ceiling exactly
C24_Witness ==
    /\ dropped
    /\ \E w \in Workers :
          /\ Acquired(w)
          /\ task[w].had >= 0
          /\ heap[task[w].buf].cap = PoolCeiling

Holds(w) == task[w].buf # 0

\* C25: no buffer is held by two goroutines at once, a held buffer is not
\* in the free list, and no buffer is in the free list twice.
C25_ExclusiveOwnership ==
    /\ \A w, v \in Workers :
          w # v /\ Holds(w) /\ Holds(v) => task[w].buf # task[v].buf
    /\ \A w \in Workers : Holds(w) => bufPool[task[w].buf] = 0
    /\ \A p \in Ptrs : bufPool[p] <= 1

\* two goroutines hold buffers at once, both recycled
C25_Witness ==
    \E w, v \in Workers :
        /\ w # v
        /\ task[w].pc = "held" /\ task[w].had >= 0
        /\ task[v].pc = "held" /\ task[v].had >= 0

-----------------------------------------------------------------------------
(* GetUser properties, under SpecUser *)

\* the contexts of the request of worker w: each is done when the inbound
\* one is, has a deadline, and none later than the context it derives from
Intersected(w) ==
    \A i \in 2..Len(task[w].ctx) :
        LET c == task[w].ctx[i]
            parent == task[w].ctx[i - 1]
        IN /\ task[w].ctx[1].err # "none" => c.err # "none"
           /\ c.ddl # NoDeadline
           /\ parent.ddl # NoDeadline => c.ddl <= parent.ddl

\* a stage that derives a context gives it the earlier of the inbound
\* deadline and its start plus its budget
DerivesMin(w) ==
    /\ task[w].pc = "to_enter" /\ task'[w].pc = "gu_enter" =>
          Own(task'[w]).ddl =
              Earlier(Own(task[w]).ddl, clock + Ticks(BudgetMs))
    /\ task[w].pc = "gu_enter" /\ task'[w].pc = "gu_parse" =>
          Own(task'[w]).ddl =
              Earlier(Own(task[w]).ddl, clock + Ticks(UserBudgetMs))

\* C21 as stated: the context a handler sees is the inbound context
\* intersected with the stage budget, the 80 ms budget of GetUser only
\* tightens the deadline, and every GetUser call whose inbound context has
\* expired is answered 504.
C21_ContextIntersectionAsStated ==
    /\ [](\A w \in Workers :
             /\ Intersected(w)
             /\ task[w].pc = "done" /\ task[w].late =>
                   task[w].code = StatusGatewayTimeout)
    /\ [][\A w \in Workers : DerivesMin(w)]_vars

\* C21: the context a handler sees is the inbound context intersected with
\* the stage budget, the 80 ms budget of GetUser only tightens the
\* deadline, and a GetUser call whose inbound context has expired is
\* answered 504 when its id is well-formed, and 400 when it is not.
C21_ContextIntersection ==
    /\ [](\A w \in Workers :
             /\ Intersected(w)
             /\ task[w].pc = "done" /\ task[w].late =>
                   task[w].code = IF task[w].id = "ok"
                                  THEN StatusGatewayTimeout
                                  ELSE StatusBadRequest)
    /\ [][\A w \in Workers : DerivesMin(w)]_vars

\* a call with a well-formed id and an expired inbound context was answered
\* 504
C21_Witness ==
    \E w \in Workers :
        /\ task[w].pc = "done"
        /\ task[w].late
        /\ task[w].id = "ok"
        /\ task[w].code = StatusGatewayTimeout

\* GetUser has run its deferred calls
Left(w) == task[w].pc \in {"to_ret", "done"}

\* C26: a buffer GetUser acquired is released exactly once by the time
\* GetUser is left, by return or by panic; the bytes are written to the
\* response while the buffer is held and unreleased; and a call that ends
\* at the id, at the repository or at the deadline acquires no buffer.
C26_ReleasedOnEveryPath ==
    /\ [](\A w \in Workers :
             /\ task[w].puts <= task[w].gets /\ task[w].gets <= 1
             /\ Left(w) => task[w].puts = task[w].gets /\ task[w].buf = 0
             /\ task[w].gets = 1 =>
                   /\ task[w].id = "ok"
                   /\ task[w].code \notin {StatusBadRequest, StatusNotFound,
                                           StatusGatewayTimeout})
    /\ [][\A w \in Workers :
             ~task[w].sent /\ task'[w].sent =>
                 /\ task[w].gets = 1 /\ task[w].puts = 0
                 /\ task[w].buf # 0
                 /\ heap[task[w].buf].len > 0]_vars

\* GetUser panicked after the acquire and the buffer was released
C26_Witness ==
    \E w \in Workers :
        /\ task[w].pc = "done"
        /\ task[w].exit = "panic"
        /\ task[w].gets = 1
        /\ task[w].puts = 1

-----------------------------------------------------------------------------
(* Decoding properties, under SpecCreate *)

\* the body is one object and nothing else
WellFormed(b) == b \in Objects

HasUnknownField(b) ==
    \E i \in 1..Len(b) : b[i] \notin Schema \cup {"{", "}", ","}

\* C27: a body with a field outside the schema, a malformed body and an
\* empty body are answered 400 with nothing validated, hashed or stored;
\* a well-formed body of known fields only is decoded without an error.
C27_StrictDecoding ==
    \A w \in Workers :
        task[w].pc = "done" =>
            /\ (~WellFormed(task[w].body) \/ HasUnknownField(task[w].body)) =>
                   task[w].code = StatusBadRequest /\ task[w].calls = {}
            /\ (WellFormed(task[w].body) /\ ~HasUnknownField(task[w].body)) =>
                   "validate" \in task[w].calls

\* an object of the three fields followed by a stray brace was decoded
\* and the user created
C27_Witness ==
    \E w \in Workers :
        /\ task[w].pc = "done"
        /\ task[w].body = Object(<<"email", "name", "password">>) \o <<"}">>
        /\ task[w].code = StatusCreated
        /\ task[w].calls = {"validate", "hash", "create"}

-----------------------------------------------------------------------------
(* The cooldown, under SpecCB *)

\* C29: while the breaker is open no step changes openUntil.
C29_CooldownUntouched ==
    [][clock < cb.openUntil => cb'.openUntil = cb.openUntil]_vars

\* a call that passed the check before the breaker was opened has failed
\* while it is open, and is about to be recorded with the score one below
\* the threshold: recording it opens the breaker anew, until later
C29_Witness ==
    \E w \in Workers :
        /\ rq[w].pc = "cb_record"
        /\ IsFailure(rq[w].rec)
        /\ clock < cb.openUntil
        /\ cb.failures + 1 >= cb.failureThreshold
        /\ clock + cb.openFor > cb.openUntil

-----------------------------------------------------------------------------
(* The refill step, under SpecRL *)

\* floor(refillRate * elapsed / period)
TokensToAdd(r, now) == (r.refill * (now - r.last)) \div r.per

\* C30: the refill step adds tokensToAdd = floor(refillRate * elapsed /
\* period) tokens, up to the capacity, and moves lastRefill to now when
\* tokensToAdd > 0; it changes neither when tokensToAdd = 0 or no time
\* has passed.
C30_LazyRefillStep ==
    [][\A w \in Workers :
          rq[w].pc = "rl_refill" /\ Steps(w) =>
              IF rq[w].now - rl.last > 0 /\ TokensToAdd(rl, rq[w].now) > 0
              THEN /\ rl'.tokens =
                         Min(rl.cap, rl.tokens + TokensToAdd(rl, rq[w].now))
                   /\ rl'.last = rq[w].now
              ELSE rl'.tokens = rl.tokens /\ rl'.last = rl.last]_vars

\* a refill step is due a token by the exact quotient and due none as the
\* code computes it
C30_Witness ==
    \E w \in Workers :
        /\ rq[w].pc = "rl_refill"
        /\ rq[w].now - rl.last > 0
        /\ TokensToAdd(rl, rq[w].now) = 1
        /\ RefillCount(rl, rq[w].now) = 0
        /\ rl.tokens < rl.cap

-----------------------------------------------------------------------------
(* Separately constructed pipelines, under SpecIso *)

\* the mutable fields of the structs of a pipeline
Fields(s) ==
    [tokens |-> s.rl.tokens, lastRefill |-> s.rl.last,
     failures |-> s.cb.failures, openUntil |-> s.cb.openUntil]

\* C28: two rate limiters (or two circuit breakers) constructed separately
\* share no state: whatever the requests through one pipeline do, the
\* tokens, lastRefill, failure score and openUntil of the other pipeline
\* stay as they were; turning from one pipeline to the other changes none.
C28_StateIsolation ==
    [][\A g \in Groups :
          (g # cur \/ cur' # cur) =>
              Fields(Structs(g))' = Fields(Structs(g))]_vars

\* requests went through both pipelines and left their gates in different
\* states: the first bucket is empty and the second is not, or the first
\* breaker is open and the second only has a score
C28_Witness ==
    /\ cur = 2
    /\ rq[2].pc = "idle"
    /\ \/ /\ chain[1] = "ratelimit"
          /\ Structs(1).rl.tokens = 0
          /\ 0 < rl.tokens /\ rl.tokens < rl.cap
       \/ /\ chain[1] = "breaker"
          /\ clock < Structs(1).cb.openUntil
          /\ cb.failures > 0 /\ cb.openUntil = 0

-----------------------------------------------------------------------------
(* Outcome classification, under SpecCB *)

\* the recording section counted a failure: the score went up by one, or
\* the breaker was opened from now and the score reset
CountedFailure(c, d, t) ==
    \/ d.failures = c.failures + 1 /\ d.openUntil = c.openUntil
    \/ /\ c.failures + 1 >= c.failureThreshold
       /\ d.failures = 0
       /\ d.openUntil = t + c.openFor

\* the recording section counted a success: the score decayed, nothing else
CountedSuccess(c, d) ==
    /\ d.failures = IF c.failures >= DecayStep THEN c.failures - DecayStep
                    ELSE 0
    /\ d.openUntil = c.openUntil

\* C31: a completed downstream call counts as a failure exactly when the
\* status the handler passed to WriteHeader is >= 500; a handler that
\* returns without WriteHeader is recorded with 200, a success, and so is
\* any status below 500; the recorder passes the status on unchanged, so
\* the client receives what the handler wrote.
C31_OutcomeClassification ==
    /\ [](\A w \in Workers :
            rq[w].pc \in {"cb_rlock", "cb_record"} =>
                /\ rq[w].rec = IF rq[w].hcode = 0 THEN StatusOK
                               ELSE rq[w].hcode
                /\ rq[w].code = rq[w].hcode)
    /\ [][\A w \in Workers :
            rq[w].pc = "cb_record" /\ Steps(w) =>
                IF rq[w].hcode >= 500
                THEN CountedFailure(cb, cb', clock)
                ELSE CountedSuccess(cb, cb')]_vars

\* a call whose handler answered 404 is about to be recorded while the
\* score is positive
C31_Witness ==
    \E w \in Workers :
        /\ rq[w].pc = "cb_record"
        /\ rq[w].hcode = 404
        /\ rq[w].rec = 404
        /\ cb.failures > 0

-----------------------------------------------------------------------------
(* The ceiling of the pool, under SpecPool *)

\* PutBuffer pools the buffer of w in this step
Pools(w) == bufPool'[task[w].buf] = bufPool[task[w].buf] + 1

\* PutBuffer is what goroutine w does in this step
Puts(w) == task[w].pc \in {"held", "written"} /\ task'[w].pc = "idle"

\* every step of PutBuffer pools the buffer if and only if its capacity is
\* at or below 1 MiB
PooledIffWithinCeiling ==
    [][\A w \in Workers :
          Puts(w) => (Pools(w) <=> heap[task[w].buf].cap <= PoolCeiling)]_vars

-----------------------------------------------------------------------------
(* The jitter, under SpecJitter *)

\* the time the sleep a request has just started will last, in nanoseconds
Delay(r, t) == IF r.wake = 0 THEN 0 ELSE (r.wake - t) * tickNs

\* C33: the delay d the breaker inserts before an admitted downstream call
\* satisfies 0 <= d < 1 ms, and a rejected (503) call is answered without
\* any sleep.
C33_JitterSubMillisecond ==
    [][\A w \in Workers :
          /\ rq[w].pc = "cb_jitter" /\ Steps(w) =>
                /\ 0 <= Delay(rq'[w], clock)
                /\ Delay(rq'[w], clock) < Millisecond
          /\ rq[w].pc = "cb_check" /\ Steps(w) /\ CBIsOpen(cb, clock) =>
                rq'[w].pc = "done" /\ rq'[w].wake = 0]_vars

\* an admitted request sleeps and a whole millisecond of its sleep is left
C33_Witness ==
    \E w \in Workers :
        /\ rq[w].pc = "cb_sleep"
        /\ Delay(rq[w], clock) >= Millisecond

-----------------------------------------------------------------------------
(* The score bound, under SpecCB *)

\* a request is inside a critical section of the breaker, reading its fields
Observes(w) == rq[w].pc \in {"cb_check", "cb_record"}

\* C34: with a threshold T >= 1 the failure score s satisfies
\* 0 <= s <= T - 1 whenever the breaker's lock is free and whenever a
\* request holds it and reads the score: no request ever finds the score at
\* or above the threshold.
C34_ScoreBound ==
    /\ cb.failureThreshold >= 1
    /\ (cb.mu = 0 \/ \E w \in Workers : Observes(w) /\ cb.mu = w)
    => /\ 0 <= cb.failures
       /\ cb.failures <= cb.failureThreshold - 1

\* a request reads the score at its largest value, one below a threshold
\* of at least 2
C34_Witness ==
    \E w \in Workers :
        /\ Observes(w)
        /\ cb.mu = w
        /\ cb.failureThreshold >= 2
        /\ cb.failures = cb.failureThreshold - 1

-----------------------------------------------------------------------------
(* lastRefill, under SpecRL *)

\* C35: requests sample now before they take the bucket lock and can enter
\* the critical section out of timestamp order; even so lastRefill never
\* moves backwards, and a request whose now is not later than lastRefill
\* adds no tokens and leaves lastRefill alone.
C35_LastRefillMonotone ==
    [][/\ rl'.last >= rl.last
       /\ \A w \in Workers :
             rq[w].pc = "rl_refill" /\ Steps(w) /\ rq[w].now <= rl.last =>
                 rl'.tokens = rl.tokens /\ rl'.last = rl.last]_vars

\* a request is about to refill with a now that lies before lastRefill:
\* another request, which sampled its now later, went through the critical
\* section first; the bucket is not full
C35_Witness ==
    \E w \in Workers :
        /\ rq[w].pc = "rl_refill"
        /\ rq[w].now < rl.last
        /\ rl.tokens < rl.cap

-----------------------------------------------------------------------------
(* The admission bound, under SpecAdmission *)

\* floor(refillRate * (t - construction time) / period)
Allowance(r, t) == (r.refill * t) \div r.per

\* C36: at any time t the rate limiter has forwarded at most
\* capacity + floor(refillRate * (t - construction time) / period)
\* requests since it was constructed, whatever the interleaving.
C36_AdmissionBound ==
    forwarded <= rl.cap + Allowance(rl, clock)

\* the bound is met: the limiter has forwarded its capacity and a refilled
\* token besides
C36_Witness ==
    /\ Allowance(rl, clock) >= 1
    /\ forwarded = rl.cap + Allowance(rl, clock)

-----------------------------------------------------------------------------
(* A panic below the breaker, under SpecPipe *)

\* C37: in the pipeline NewRouter composes, a panic of the downstream
\* handler reaches the breaker as a completed call with status 500: the
\* request goes on to the recording section, and the recording counts a
\* failure (the score goes up by one, or the breaker opens).
C37_PanicIsRecordedFailure ==
    /\ [](\A w \in Workers :
            rq[w].fault # 0 =>
                /\ rq[w].pc \in {"cb_rlock", "cb_record", "done"}
                /\ rq[w].rec = StatusInternalServerError)
    /\ [][\A w \in Workers :
            rq[w].pc = "cb_record" /\ rq[w].fault # 0 /\ Steps(w) =>
                CountedFailure(cb, cb', clock)]_vars

\* the handler wrote 404 and panicked, and the request is about to be
\* recorded by the breaker
C37_Witness ==
    \E w \in Workers :
        /\ rq[w].pc = "cb_record"
        /\ rq[w].fault # 0
        /\ rq[w].hcode = 404
        /\ rq[w].rec = StatusInternalServerError

-----------------------------------------------------------------------------
(* Locks and termination, under SpecPipeFair *)

\* the terminal responses a request can have: the 429 of the rate limiter,
\* the 503 of the breaker, or what came back from the downstream handler
Terminal(r) ==
    {k \in {"busy", "unavailable", "handled"} :
        \/ k = "busy" /\ ~r.down /\ r.code = StatusTooManyRequests
        \/ k = "unavailable" /\ ~r.down /\ r.code = StatusServiceUnavailable
        \/ k = "handled" /\ r.down}

\* C38: no request holds the bucket lock and the breaker lock at the same
\* time; a request that has left the pipeline (admit, 429, 503 or outcome
\* recording behind it) holds no lock; and under fair scheduling every
\* request whose handler comes to an end completes, with exactly one
\* terminal response.
C38_DeadlockFreedom ==
    /\ [](\A w \in Workers :
            /\ ~(rl.mu = w /\ cb.mu = w)
            /\ rq[w].pc \in {"idle", "done"} => rl.mu # w /\ cb.mu # w
            /\ rq[w].pc = "done" => Cardinality(Terminal(rq[w])) = 1)
    /\ \A w \in Workers : (rq[w].pc # "idle") ~> (rq[w].pc = "done")

\* a request has completed after a call downstream while another request
\* holds the breaker's lock for its recording and the bucket lock is free
C38_Witness ==
    \E w \in Workers, v \in Workers :
        /\ rq[w].pc = "done"
        /\ rq[w].down
        /\ rq[v].pc = "cb_record"
        /\ cb.mu = v
        /\ rl.mu = 0

=============================================================================
